---- MODULE Spec2Model ----
(***************************************************************************)
(* Model of the adaptive content-strategy learning engine of               *)
(* x-marketing-engine (scripts/analyze_hypothesis.ts and the files it      *)
(* shares with auto_post.ts and collect_metrics.ts).                       *)
(*                                                                         *)
(* Number representation.  The program computes in IEEE doubles and stores *)
(* rounded values; the model computes the same values exactly in integers: *)
(*   alpha, beta, mean, samples   thousandths (0.3 is 300)                 *)
(*   raw_xas, normalized_xas, growth_score, avg_xas   hundredths           *)
(*   engagement/amplification/conversation/save rate   ten-thousandths     *)
(*   freshness   hundredths;  posted_at   whole days                       *)
(* Math.round(a/b) is RoundDiv(a, b) (round half up).                      *)
(***************************************************************************)
EXTENDS Integers, Sequences, FiniteSets, TLC

VARIABLES
    historyFile,    \* content/post_history.json: Missing or a sequence of posts
    learningFile,   \* content/learning_state.json: Missing, Malformed or a state
    analysisFile,   \* content/hypothesis_analysis.json: Missing or AnalyzedPost[]
    recFile,        \* content/next_recommendation.json: Missing or a record
    hypoLog,        \* content/pain_hypothesis_log.yml: Missing or a log record
    lastVerb,       \* the CLI verb that ran last ("none" before the first run)
    outcome,        \* how it ended: "ok", "early" (diagnostic + return), "raised"
    runs,           \* number of CLI runs so far
    calls,          \* history variable: updateBeta calls persisted, per <<map, key>>
    pc,             \* per process: position inside a stepwise run
    local,          \* per process: the in-memory data of its run
    saves,          \* number of saveLearningState calls so far
    overlapped,     \* history variable: some save overwrote a state it had not loaded
    bIn,            \* arguments of the function applied on its own (updateBeta:
                    \* params, score, maxScore; the samplers: params and draws)
    bOut,           \* whether it has been applied, and its result
    now,            \* the clock (Date.now()), in whole days
    consumed,       \* what the last run of a consumer loaded and selected
    pool,           \* content/ab_test_pool.yml: the sequence of its posts
    gamma           \* the position of a sampleBeta call run draw by draw

files == <<historyFile, learningFile, analysisFile, recFile, hypoLog>>
cliVars == <<lastVerb, outcome, runs, calls>>
procVars == <<pc, local, saves, overlapped>>
betaVars == <<bIn, bOut>>
consumerVars == <<now, consumed, pool, gamma>>
vars == <<files, cliVars, procVars, betaVars, consumerVars>>

\* A file is absent (Missing) or holds one content: File(c).  A nullable value
\* is Null or Some(v).  Values of different shapes never meet in a comparison.
Missing == <<>>
File(c) == <<c>>
Malformed == File([malformed |-> TRUE])
Null == <<>>
Some(v) == <<v>>
NoMetrics == [none |-> TRUE]
NoPool == <<>>
NoGamma == [ pc |-> "off", alpha |-> 0, beta |-> 0, arg |-> "none", shape |-> 0,
             depth |-> 0, x |-> 0, rounds |-> 0, redraws |-> 0 ]
NoType == "undefined"

\* ------------------------------------------------------------------ bounds
MaxPosts == 2
MaxRuns == 3

\* ----------------------------------------------------------------- helpers
Max(a, b) == IF a >= b THEN a ELSE b
Min(a, b) == IF a <= b THEN a ELSE b

\* Math.round(a / b) for b > 0: floor(a/b + 1/2)
RoundDiv(a, b) == (2 * a + b) \div (2 * b)

RECURSIVE SumSeq(_)
SumSeq(s) == IF s = <<>> THEN 0 ELSE Head(s) + SumSeq(Tail(s))

\* ------------------------------------------------- EngagementScorer (XAS)
\* `metrics.k || 0`: a count the metrics block does not carry reads as 0
OrZero(metrics, k) == IF k \in DOMAIN metrics THEN metrics[k] ELSE 0

\* a slip that weighs a like as much as a reshare
calculateXAS_LikesWhole(metrics) ==
    LET replies == OrZero(metrics, "replies")
        bookmarks == OrZero(metrics, "bookmarks")
        retweets == OrZero(metrics, "retweets")
        likes == OrZero(metrics, "likes")
        profile_clicks == OrZero(metrics, "profile_clicks")
        url_clicks == OrZero(metrics, "url_clicks")
        impressions == Max(metrics.impressions, 1)
        \* twice raw_xas, so that the weights 13.5 and 0.5 stay integers
        raw2 == 27 * replies + 20 * bookmarks + 2 * retweets + 2 * likes
                + 24 * profile_clicks + 10 * url_clicks
        total_engagements == likes + retweets + replies + bookmarks
    IN  [ raw_xas |-> RoundDiv(raw2 * 100, 2),
          normalized_xas |-> RoundDiv(raw2 * 100000, 2 * impressions),
          engagement_rate |-> RoundDiv(total_engagements * 10000, impressions),
          amplification_rate |-> RoundDiv(retweets * 10000, impressions),
          conversation_rate |-> RoundDiv(replies * 10000, impressions),
          save_rate |-> RoundDiv(bookmarks * 10000, impressions),
          growth_score |->
              RoundDiv((40 * impressions + 20 * profile_clicks
                         + 10 * total_engagements) * impressions
                       + 15000 * raw2,
                       impressions) ]

\* scores are in hundredths, rates in ten-thousandths
calculateXAS(metrics) ==
    LET replies == OrZero(metrics, "replies")
        bookmarks == OrZero(metrics, "bookmarks")
        retweets == OrZero(metrics, "retweets")
        likes == OrZero(metrics, "likes")
        profile_clicks == OrZero(metrics, "profile_clicks")
        url_clicks == OrZero(metrics, "url_clicks")
        impressions == Max(metrics.impressions, 1)
        \* twice raw_xas, so that the weights 13.5 and 0.5 stay integers
        raw2 == 27 * replies + 20 * bookmarks + 2 * retweets + likes
                + 24 * profile_clicks + 10 * url_clicks
        total_engagements == likes + retweets + replies + bookmarks
    IN  [ raw_xas |-> RoundDiv(raw2 * 100, 2),
          normalized_xas |-> RoundDiv(raw2 * 100000, 2 * impressions),
          engagement_rate |-> RoundDiv(total_engagements * 10000, impressions),
          amplification_rate |-> RoundDiv(retweets * 10000, impressions),
          conversation_rate |-> RoundDiv(replies * 10000, impressions),
          save_rate |-> RoundDiv(bookmarks * 10000, impressions),
          growth_score |->
              RoundDiv((40 * impressions + 20 * profile_clicks
                         + 10 * total_engagements) * impressions
                       + 15000 * raw2,
                       impressions) ]

\* ------------------------------------------------------- FeatureExtractor
\* A post's text is a sequence of tokens; each token stands for a run of
\* characters that the regular expressions of extractTextFeatures either
\* match or do not match.
TokLen(t) ==
    CASE t = "filler50" -> 50
      [] t = "filler100" -> 100
      [] t = "minna" -> 3          \* an empathy word
      [] t = "qmark" -> 1          \* a question mark
      [] t = "pct" -> 3           \* digits followed by a percent sign
      [] t = "versus" -> 2        \* a contrast word
      [] t = "jitsuwa" -> 2       \* a discovery word
      [] t = "shoujiki" -> 2      \* a confession word
      [] t = "saikou" -> 2        \* a positive word
      [] t = "shippai" -> 2       \* a negative word
      [] t = "rocket" -> 2        \* an emoji in the emoji ranges (and positive)
      [] t = "hashtag" -> 3
      [] t = "nl" -> 1            \* a line break
      [] OTHER -> 1

RECURSIVE CountTok(_, _)
CountTok(s, T) ==
    IF s = <<>> THEN 0
    ELSE (IF Head(s) \in T THEN 1 ELSE 0) + CountTok(Tail(s), T)

RECURSIVE CharCount(_)
CharCount(s) == IF s = <<>> THEN 0 ELSE TokLen(Head(s)) + CharCount(Tail(s))

\* the tokens of the first non-empty line
RECURSIVE FirstLine(_)
FirstLine(s) ==
    IF s = <<>> THEN <<>>
    ELSE IF Head(s) = "nl" THEN FirstLine(Tail(s))
    ELSE LET RECURSIVE UpToNl(_)
             UpToNl(r) == IF r = <<>> \/ Head(r) = "nl" THEN <<>>
                          ELSE <<Head(r)>> \o UpToNl(Tail(r))
         IN  UpToNl(s)

Has(s, T) == CountTok(s, T) > 0

extractTextFeatures(content) ==
    LET firstLine == FirstLine(content)
        hookPattern ==
            IF Has(firstLine, {"minna"}) THEN "empathy"
            ELSE IF firstLine # <<>> /\ firstLine[Len(firstLine)] = "qmark"
                 THEN "question"
            ELSE IF Has(firstLine, {"pct"}) THEN "data"
            ELSE IF Has(firstLine, {"versus"}) THEN "contrast"
            ELSE IF Has(firstLine, {"jitsuwa"}) THEN "discovery"
            ELSE IF Has(firstLine, {"shoujiki"}) THEN "confession"
            ELSE "neutral"
        positive == Has(content, {"saikou", "rocket"})
        negative == Has(content, {"shippai"})
        sentiment ==
            IF positive /\ ~negative THEN "positive"
            ELSE IF negative /\ ~positive THEN "negative"
            ELSE IF positive /\ negative THEN "mixed"
            ELSE "neutral"
    IN  [ char_count |-> CharCount(content),
          emoji_count |-> CountTok(content, {"rocket"}),
          has_numbers |-> Has(content, {"pct"}),
          hashtag_count |-> CountTok(content, {"hashtag"}),
          hook_pattern |-> hookPattern,
          sentiment |-> sentiment ]

\* ------------------------------------------------------ theme freshness
\* posted_at is a whole day number, so daysSince is an integer.
calculateThemeFreshness(postDate, theme, allPosts) ==
    LET earlier == { i \in 1..Len(allPosts) :
                        allPosts[i].theme = theme /\ allPosts[i].posted_at < postDate }
    IN  IF earlier = {} THEN [freshness |-> 100, days_since |-> 9990]
        ELSE LET last == CHOOSE i \in earlier :
                             \A j \in earlier : allPosts[j].posted_at <= allPosts[i].posted_at
                 daysSince == postDate - allPosts[last].posted_at
             IN  [ freshness |-> Min(100, RoundDiv(490 + 30 * daysSince, 7)),
                   days_since |-> 10 * daysSince ]

\* ------------------------------------------------------ Thompson Sampling
initBetaParams == [alpha |-> 300, beta |-> 700, trials |-> 0, mean |-> 300]

\* The normalized score Math.min(1, Math.max(0, score / Math.max(maxScore, 1)))
\* as a fraction num / den in lowest terms.  score and maxScore are in
\* hundredths, so max(maxScore, 1) is Max(maxScore, 100).
RECURSIVE GCD(_, _)
GCD(a, b) == IF b = 0 THEN a ELSE GCD(b, a % b)

\* a slip that gives a batch without any reward the neutral default 0.5
NormalizedScore_Neutral(score, maxScore) ==
    IF maxScore = 0 THEN [num |-> 1, den |-> 2]
    ELSE LET m == Max(maxScore, 100)
             n == Min(m, Max(0, score))
             g == GCD(m, n)
         IN  [num |-> n \div g, den |-> m \div g]

\* Math.min(1.0, Math.max(0.0, score / Math.max(maxScore, 1))) as a fraction
\* in lowest terms, scores being in hundredths
NormalizedScore(score, maxScore) ==
    LET m == Max(maxScore, 100)
        n == Min(m, Max(0, score))
        g == GCD(m, n)
    IN  [num |-> n \div g, den |-> m \div g]

\* Math.round(1000 * x / y) for 0 <= x, 0 < y, dividing in two stages so that
\* no intermediate product leaves the 32-bit integers of the model checker
Round1000(x, y) ==
    LET q1 == (100 * x) \div y
        r1 == (100 * x) % y
        q == 10 * q1 + (10 * r1) \div y
        r == (10 * r1) % y
    IN  q + (IF 2 * r >= y THEN 1 ELSE 0)

\* a slip that forgets to count the update
updateBeta_NoTrial(params, score, maxScore) ==
    LET ns == NormalizedScore(score, maxScore)
        newAlphaNum == params.alpha * ns.den + 1000 * ns.num
        newBetaNum == params.beta * ns.den + 1000 * (ns.den - ns.num)
    IN  [ alpha |-> RoundDiv(newAlphaNum, ns.den),
          beta |-> RoundDiv(newBetaNum, ns.den),
          trials |-> params.trials,
          mean |-> Round1000(newAlphaNum, newAlphaNum + newBetaNum) ]

\* a slip that adds the success mass to both parameters
updateBeta_BothUp(params, score, maxScore) ==
    LET ns == NormalizedScore(score, maxScore)
        newAlphaNum == params.alpha * ns.den + 1000 * ns.num
        newBetaNum == params.beta * ns.den + 1000 * ns.num
    IN  [ alpha |-> RoundDiv(newAlphaNum, ns.den),
          beta |-> RoundDiv(newBetaNum, ns.den),
          trials |-> params.trials + 1,
          mean |-> Round1000(newAlphaNum, newAlphaNum + newBetaNum) ]

\* a slip that subtracts the failure mass instead of adding it
updateBeta_BetaDown(params, score, maxScore) ==
    LET ns == NormalizedScore(score, maxScore)
        newAlphaNum == params.alpha * ns.den + 1000 * ns.num
        newBetaNum == params.beta * ns.den - 1000 * (ns.den - ns.num)
    IN  [ alpha |-> RoundDiv(newAlphaNum, ns.den),
          beta |-> RoundDiv(newBetaNum, ns.den),
          trials |-> params.trials + 1,
          mean |-> 0 ]

\* alpha, beta and mean are in thousandths; newAlphaNum / den and
\* newBetaNum / den are the unrounded newAlpha and newBeta, in thousandths
updateBeta(params, score, maxScore) ==
    LET ns == NormalizedScore(score, maxScore)
        newAlphaNum == params.alpha * ns.den + 1000 * ns.num
        newBetaNum == params.beta * ns.den + 1000 * (ns.den - ns.num)
    IN  [ alpha |-> RoundDiv(newAlphaNum, ns.den),
          beta |-> RoundDiv(newBetaNum, ns.den),
          trials |-> params.trials + 1,
          mean |-> Round1000(newAlphaNum, newAlphaNum + newBetaNum) ]

\* ------------------------------------------------------- LearningState
\* A score map (a JavaScript object used as a dictionary) is the sequence of
\* its entries [name, p] in insertion order, which is the order Object.entries
\* enumerates and JSON.stringify / JSON.parse preserve.
HasArm(map, key) == \E i \in 1..Len(map) : map[i].name = key
GetArm(map, key) == map[CHOOSE i \in 1..Len(map) : map[i].name = key].p
ArmNames(map) == { map[i].name : i \in 1..Len(map) }

Dims == {"theme_scores", "approach_scores", "slot_scores", "variant_scores",
         "feature_scores", "source_type_scores"}

EmptyState ==
    [ theme_scores |-> <<>>, approach_scores |-> <<>>, slot_scores |-> <<>>,
      variant_scores |-> <<>>, feature_scores |-> <<>>, source_type_scores |-> <<>>,
      global_stats |-> [ total_analyzed |-> 0, avg_xas |-> 0, avg_impressions |-> 0,
                         best_xas_post |-> Null, worst_xas_post |-> Null ] ]

\* loadLearningState of analyze_hypothesis.ts: no try/catch around JSON.parse,
\* so a malformed file raises.  The result is [raised, state].
loadLearningState(file) ==
    IF file = Missing THEN [raised |-> FALSE, state |-> EmptyState]
    ELSE IF file = Malformed THEN [raised |-> TRUE, state |-> EmptyState]
    ELSE [raised |-> FALSE, state |-> file[1]]

\* a slip that re-creates the arm on every observation
Touch_Reset(map, key, score, maxXAS) ==
    LET m1 == IF HasArm(map, key) THEN map
              ELSE Append(map, [name |-> key, p |-> initBetaParams])
    IN  [ i \in 1..Len(m1) |->
            IF m1[i].name = key
            THEN [name |-> key, p |-> updateBeta(initBetaParams, score, maxXAS)]
            ELSE m1[i] ]

\* if (!map[key]) map[key] = initBetaParams(); map[key] = updateBeta(map[key], ...)
Touch(map, key, score, maxXAS) ==
    LET m1 == IF HasArm(map, key) THEN map
              ELSE Append(map, [name |-> key, p |-> initBetaParams])
    IN  [ i \in 1..Len(m1) |->
            IF m1[i].name = key
            THEN [name |-> key, p |-> updateBeta(m1[i].p, score, maxXAS)]
            ELSE m1[i] ]

\* ------------------------------------------------------------- analyze
withMetrics(history) == SelectSeq(history, LAMBDA h : h.metrics # NoMetrics)

sourceTypeOf(post) ==
    IF post.id[1] = "overseas_" \/ post.type = "overseas_insight" THEN "overseas_trend"
    ELSE IF post.type = "academic_insight" THEN "academic_paper"
    ELSE IF post.id[1] = "hist_" \/ post.id[1] = "pool_" THEN "domestic"
    ELSE "unknown"

\* Phase 1, one post: the AnalyzedPost pushed to results
AnalyzePost(post, history) ==
    LET fr == calculateThemeFreshness(post.posted_at, post.theme, history)
    IN  [ post_id |-> post.id,
          tweet_id |-> post.tweet_id,
          posted_at |-> post.posted_at,
          content |-> post.content,
          xas |-> calculateXAS(post.metrics),
          attribution |->
              [ theme |-> post.theme,
                approach |-> IF post.type = NoType THEN "unknown" ELSE post.type,
                text_features |-> extractTextFeatures(post.content),
                slot |-> post.slot,
                variant |-> post.variant,
                theme_freshness |-> fr.freshness,
                days_since_same_theme |-> fr.days_since,
                source_type |-> sourceTypeOf(post) ] ]

Phase1Results(history) ==
    LET wm == withMetrics(history)
    IN  [ i \in 1..Len(wm) |-> AnalyzePost(wm[i], history) ]

\* the running best / worst / max of Phase 1, over the first k results
RECURSIVE BestXAS(_, _)
BestXAS(results, k) ==
    IF k = 0 THEN [score |-> -1, id |-> <<"", 0>>]
    ELSE LET b == BestXAS(results, k - 1)
         IN  IF results[k].xas.normalized_xas > b.score
             THEN [score |-> results[k].xas.normalized_xas, id |-> results[k].post_id]
             ELSE b

Infinity == 1000000000

RECURSIVE WorstXAS(_, _)
WorstXAS(results, k) ==
    IF k = 0 THEN [score |-> Infinity, id |-> <<"", 0>>]
    ELSE LET w == WorstXAS(results, k - 1)
         IN  IF results[k].xas.normalized_xas < w.score
             THEN [score |-> results[k].xas.normalized_xas, id |-> results[k].post_id]
             ELSE w

RECURSIVE MaxXAS(_, _)
MaxXAS(results, k) ==
    IF k = 0 THEN 0
    ELSE Max(MaxXAS(results, k - 1), results[k].xas.normalized_xas)

\* the keys of feature_scores one result updates, in the order of the code;
\* a key such as len_short is the pair <<"len_", "short">> of its prefix and rest
FeatureKeys(tf) ==
    << <<"len_", IF tf.char_count < 120 THEN "short"
                 ELSE IF tf.char_count < 200 THEN "medium" ELSE "long">>,
       <<"emoji_", IF tf.emoji_count = 0 THEN "none"
                   ELSE IF tf.emoji_count <= 2 THEN "few" ELSE "many">>,
       <<"hook_", tf.hook_pattern>>,
       <<"sentiment_", tf.sentiment>>,
       IF tf.hashtag_count = 0 THEN <<"hashtag_", "none">> ELSE <<"hashtag_", "yes">>,
       IF tf.has_numbers THEN <<"has_numbers", "">> ELSE <<"no_numbers", "">> >>

RECURSIVE TouchAll(_, _, _, _)
TouchAll(map, keys, score, maxXAS) ==
    IF keys = <<>> THEN map
    ELSE TouchAll(Touch(map, Head(keys), score, maxXAS), Tail(keys), score, maxXAS)

\* a slip that leaves one dimension out of the batch
ApplyResult_NoSource(state, result, maxXAS) ==
    LET score == result.xas.normalized_xas
        attr == result.attribution
    IN  [ state EXCEPT
            !.theme_scores = Touch(@, attr.theme, score, maxXAS),
            !.approach_scores = Touch(@, attr.approach, score, maxXAS),
            !.slot_scores = Touch(@, attr.slot, score, maxXAS),
            !.variant_scores = Touch(@, attr.variant, score, maxXAS),
            !.feature_scores = TouchAll(@, FeatureKeys(attr.text_features), score, maxXAS) ]

\* Phase 2, one result: every dimension learns from the post
ApplyResult(state, result, maxXAS) ==
    LET score == result.xas.normalized_xas
        attr == result.attribution
    IN  [ state EXCEPT
            !.theme_scores = Touch(@, attr.theme, score, maxXAS),
            !.approach_scores = Touch(@, attr.approach, score, maxXAS),
            !.slot_scores = Touch(@, attr.slot, score, maxXAS),
            !.variant_scores = Touch(@, attr.variant, score, maxXAS),
            !.feature_scores = TouchAll(@, FeatureKeys(attr.text_features), score, maxXAS),
            !.source_type_scores = Touch(@, attr.source_type, score, maxXAS) ]

RECURSIVE Phase2(_, _, _, _)
Phase2(state, results, k, maxXAS) ==
    IF k = 0 THEN state
    ELSE ApplyResult(Phase2(state, results, k - 1, maxXAS), results[k], maxXAS)

GlobalStats(history, results) ==
    LET wm == withMetrics(history)
        n == Len(results)
        totalXAS == SumSeq([i \in 1..n |-> results[i].xas.normalized_xas])
        totalImp == SumSeq([i \in 1..n |-> wm[i].metrics.impressions])
    IN  [ total_analyzed |-> n,
          avg_xas |-> RoundDiv(totalXAS, n),
          avg_impressions |-> RoundDiv(totalImp, n),
          best_xas_post |-> BestXAS(results, n).id,
          worst_xas_post |-> WorstXAS(results, n).id ]

\* the state analyze saves, computed from the history it read and the state it loaded
AnalyzedState(history, state) ==
    LET results == Phase1Results(history)
        n == Len(results)
    IN  [ Phase2(state, results, n, MaxXAS(results, n))
            EXCEPT !.global_stats = GlobalStats(history, results) ]

\* -------------------------------------------------------------- verify
\* an entry is verified once its result.avg_imp is set
\* a slip that drops the skip of verified entries
IsVerified_Never(week) == FALSE

IsVerified(week) == week.result.avg_imp # Null

\* a slip that takes every analysed post for a post of the theme
ThemePosts_Any(results, theme) == results

ThemePosts(results, theme) ==
    SelectSeq(results, LAMBDA r : r.attribution.theme = theme)

\* [...themePosts].sort((a, b) => b.xas - a.xas)[0]: the first post of highest XAS
BestOf(posts) ==
    posts[CHOOSE i \in 1..Len(posts) :
            /\ \A j \in 1..Len(posts) :
                   posts[j].xas.normalized_xas <= posts[i].xas.normalized_xas
            /\ \A j \in 1..(i - 1) :
                   posts[j].xas.normalized_xas < posts[i].xas.normalized_xas]

\* the last element of the stable descending sort: the last post of lowest XAS
WorstOf(posts) ==
    posts[CHOOSE i \in 1..Len(posts) :
            /\ \A j \in 1..Len(posts) :
                   posts[j].xas.normalized_xas >= posts[i].xas.normalized_xas
            /\ \A j \in (i + 1)..Len(posts) :
                   posts[j].xas.normalized_xas > posts[i].xas.normalized_xas]

\* One pending entry with matching posts, verified against the loaded state.
\* A learning is the tuple of the sentences joined into week.learning, each
\* sentence the tuple of its template and the values printed in it.
VerifiedWeek(week, themePosts, state) ==
    LET n == Len(themePosts)
        sumXAS == SumSeq([i \in 1..n |-> themePosts[i].xas.normalized_xas])
        sumImp == SumSeq([i \in 1..n |-> themePosts[i].xas.growth_score])
        sumER == SumSeq([i \in 1..n |-> themePosts[i].xas.engagement_rate])
        sumFresh == SumSeq([i \in 1..n |-> themePosts[i].attribution.theme_freshness])
        best == BestOf(themePosts)
        worst == WorstOf(themePosts)
        globalAvg == state.global_stats.avg_xas
        painAccurate == sumXAS > globalAvg * n
        bf == best.attribution.text_features
        l1 == IF painAccurate
              THEN <<"pain_accurate", week.theme,
                     RoundDiv(sumXAS, 100 * n), RoundDiv(globalAvg, 100)>>
              ELSE <<"below_average", week.theme,
                     RoundDiv(sumXAS, 100 * n), RoundDiv(globalAvg, 100)>>
        l2 == <<"best_post", bf.char_count, bf.hook_pattern, bf.sentiment>>
        l3 == <<"low_freshness", RoundDiv(sumFresh, n)>>
    IN  [ week EXCEPT
            !.result = [ posts_count |-> n,
                         avg_imp |-> Some(RoundDiv(sumImp, n)),
                         avg_xas |-> Some(RoundDiv(sumXAS, n)),
                         avg_er |-> Some(RoundDiv(sumER, n)),
                         best_post |-> best.post_id,
                         worst_post |-> worst.post_id ],
            !.verification = Some(
                [ pain_accurate |-> painAccurate,
                  approach_effective |->
                      /\ HasArm(state.approach_scores, week.approach)
                      /\ GetArm(state.approach_scores, week.approach).mean > 500,
                  expression_worked |->
                      10 * n * best.xas.normalized_xas > 12 * sumXAS,
                  framework_link_value |->
                      IF week.framework_link_matched
                      THEN Some(10 * sumXAS > 8 * globalAvg * n)
                      ELSE Null ]),
            !.learning = IF sumFresh < 85 * n THEN <<l1, l2, l3>> ELSE <<l1, l2>>,
            !.next_action = IF sumXAS > globalAvg * n THEN "deepen" ELSE "change_theme" ]

\* does the loop of verify touch this entry?
Verifiable(week, results) ==
    ~IsVerified(week) /\ ThemePosts(results, week.theme) # <<>>

VerifiedWeeks(weeks, results, state) ==
    [ i \in 1..Len(weeks) |->
        IF Verifiable(weeks[i], results)
        THEN VerifiedWeek(weeks[i], ThemePosts(results, weeks[i].theme), state)
        ELSE weeks[i] ]

AccCap == 12

\* a slip that pushes without ever shifting
RECURSIVE Accumulate_NoShift(_, _)
Accumulate_NoShift(acc, newLearnings) ==
    IF newLearnings = <<>> THEN acc
    ELSE LET l == Head(newLearnings)
             known == \E i \in 1..Len(acc) : acc[i] = l
         IN  Accumulate_NoShift(IF known THEN acc ELSE Append(acc, l), Tail(newLearnings))

\* for (const learning of newLearnings) ...: shift when full, then push
RECURSIVE Accumulate(_, _)
Accumulate(acc, newLearnings) ==
    IF newLearnings = <<>> THEN acc
    ELSE LET l == Head(newLearnings)
             known == \E i \in 1..Len(acc) : acc[i] = l
             room == IF Len(acc) >= AccCap THEN Tail(acc) ELSE acc
         IN  Accumulate(IF known THEN acc ELSE Append(room, l), Tail(newLearnings))

LastN(s, k) == IF Len(s) <= k THEN s ELSE SubSeq(s, Len(s) - k + 1, Len(s))

\* the log verify writes when at least one entry was verified
VerifiedLog(log, results, state) ==
    LET weeks == VerifiedWeeks(log.weeks, results, state)
        withLearning == SelectSeq(weeks, LAMBDA w : w.learning # <<>>)
        newLearnings == LastN([i \in 1..Len(withLearning) |-> withLearning[i].learning], 3)
    IN  [ log EXCEPT
            !.weeks = weeks,
            !.accumulated_learnings = Accumulate(@, newLearnings) ]

\* ----------------------------------------------------------- recommend
\* sampleBeta draws from Math.random, so the samples of one run are whatever the
\* random source yields.  A random source is a pattern of sample values, repeated
\* as often as the run draws; DrawAt(rng, i) is the sample of the i-th draw.
Rngs == { <<250>>, <<750, 250>>, <<250, 750>>, <<750, 750, 250>>, <<0, 1000, 500>> }

DrawAt(rng, i) == rng[((i - 1) % Len(rng)) + 1]

\* Array.prototype.sort((a, b) => b.k - a.k): stable, descending in k
RECURSIVE InsertDesc(_, _)
InsertDesc(s, x) ==
    IF s = <<>> THEN <<x>>
    ELSE IF Head(s).k >= x.k THEN <<Head(s)>> \o InsertDesc(Tail(s), x)
    ELSE <<x>> \o s

RECURSIVE SortDesc(_, _)
SortDesc(s, n) == IF n = 0 THEN <<>> ELSE InsertDesc(SortDesc(s, n - 1), s[n])

\* one {name, sample, mean, trials} per arm, sorted by sample; the arms are
\* sampled in enumeration order, after `drawn` earlier draws of the run
Ranked(map, rng, drawn) ==
    LET tagged == [ i \in 1..Len(map) |->
                      [ k |-> DrawAt(rng, drawn + i),
                        v |-> [ name |-> map[i].name, sample |-> DrawAt(rng, drawn + i),
                                mean |-> map[i].p.mean, trials |-> map[i].p.trials ] ] ]
        sorted == SortDesc(tagged, Len(tagged))
    IN  [ i \in 1..Len(sorted) |-> sorted[i].v ]

\* slot_ranking: {name, mean, trials} sorted by mean
RankedByMean(map) ==
    LET tagged == [ i \in 1..Len(map) |->
                      [ k |-> map[i].p.mean,
                        v |-> [ name |-> map[i].name, mean |-> map[i].p.mean,
                                trials |-> map[i].p.trials ] ] ]
        sorted == SortDesc(tagged, Len(tagged))
    IN  [ i \in 1..Len(sorted) |-> sorted[i].v ]

\* featureSamples.find(f => f.name.startsWith(prefix))?.name.replace(prefix, '') || dflt
BestFeature(featureSamples, prefix, dflt) ==
    LET hits == { i \in 1..Len(featureSamples) : featureSamples[i].name[1] = prefix }
    IN  IF hits = {} THEN dflt
        ELSE featureSamples[CHOOSE i \in hits : \A j \in hits : i <= j].name[2]

\* generated_at is new Date().toISOString(), the clock at the time of the run
Recommendation(state, log, rng) ==
    LET nTheme == Len(state.theme_scores)
        nApproach == Len(state.approach_scores)
        nSlot == Len(state.slot_scores)
        themeSamples == Ranked(state.theme_scores, rng, 0)
        approachSamples == Ranked(state.approach_scores, rng, nTheme)
        featureSamples == Ranked(state.feature_scores, rng, nTheme + nApproach + nSlot)
    IN  [ generated_at |-> now,
          based_on |-> [ total_analyzed |-> state.global_stats.total_analyzed,
                         avg_xas |-> state.global_stats.avg_xas ],
          recommended |->
              [ theme |-> IF themeSamples = <<>> THEN "new_theme"
                          ELSE themeSamples[1].name,
                approach |-> IF approachSamples = <<>> THEN "discovery"
                             ELSE approachSamples[1].name,
                text_features |->
                    [ length |-> BestFeature(featureSamples, "len_", "short"),
                      emoji |-> BestFeature(featureSamples, "emoji_", "few"),
                      hook |-> BestFeature(featureSamples, "hook_", "confession"),
                      sentiment |-> BestFeature(featureSamples, "sentiment_", "mixed") ] ],
          theme_ranking |-> themeSamples,
          approach_ranking |-> approachSamples,
          slot_ranking |-> RankedByMean(state.slot_scores),
          accumulated_learnings |->
              IF log = Missing THEN <<>> ELSE log[1].accumulated_learnings ]

\* ------------------------------------------------------ the consumers
\* auto_post.ts and daily_generate.ts read the files the engine writes.  Their
\* loaders wrap the read in try/catch and return null on any failure.
NotConsumed == [who |-> "none"]

\* loadLearningState of the consumers: LearningState | null
consumerLoadLearningState(file) ==
    IF file = Missing THEN Null
    ELSE IF file = Malformed THEN Null
    ELSE Some(file[1])

\* a recommendation older than this many days is ignored
SevenDays == 7

\* a slip that never lets a recommendation expire
loadRecommendation_NoExpiry(file, clock) ==
    IF file = Missing THEN Null
    ELSE IF file = Malformed THEN Null
    ELSE Some(file[1])

\* loadRecommendation (the same in both consumers): null when the file is
\* absent, when JSON.parse throws, or when age = Date.now() - generated_at
\* exceeds seven days
loadRecommendation(file, clock) ==
    IF file = Missing THEN Null
    ELSE IF file = Malformed THEN Null
    ELSE IF clock - file[1].generated_at > SevenDays THEN Null
    ELSE Some(file[1])

\* Samples of the consumers are exact fractions num / den.
Frac(n, d) == [num |-> n, den |-> d]
Half == Frac(1, 2)

\* a / b < c / d for a, c >= 0 and b, d > 0, by the integer parts and then the
\* inverted remainders, so that no product is formed
RECURSIVE Less(_, _, _, _)
Less(a, b, c, d) ==
    LET qa == a \div b
        qc == c \div d
        ra == a % b
        rc == c % d
    IN  IF qa # qc THEN qa < qc
        ELSE IF rc = 0 THEN FALSE
        ELSE IF ra = 0 THEN TRUE
        ELSE Less(d, rc, b, ra)

FracLess(x, y) == Less(x.num, x.den, y.num, y.den)

\* The uniform draws of the consumers.  A source is a pattern of values of
\* Math.random() in thousandths, 1000 standing for the largest double below 1,
\* repeated as often as needed; the normal draw of the rejection loop is the
\* one of u2 = 0.25 (x = 0 to machine precision), so that v = 1 and the first
\* acceptance test passes.
Uniforms == { <<1000>>, <<0>>, <<1000, 0>>, <<0, 1000>>, <<1000, 1000, 0>> }

\* sampleGamma (Marsaglia and Tsang), in units of 1/3000: d * v with
\* d = shape - 1/3 and v = 1 for shape >= 1, and for shape < 1
\* sampleGamma(shape + 1) * Math.pow(w, 1 / shape) with w the next uniform draw
RECURSIVE sampleGamma(_, _)
sampleGamma(shape, w) ==
    IF shape < 1000
    THEN IF w = 0 THEN 0 ELSE sampleGamma(shape + 1000, w)
    ELSE 3 * shape - 1000

\* sampleBeta of the consumers: gammaA / (gammaA + gammaB)
consumerSampleBeta(alpha, beta, wA, wB) ==
    IF alpha <= 0 \/ beta <= 0 THEN Half
    ELSE LET gammaA == sampleGamma(alpha, wA)
             gammaB == sampleGamma(beta, wB)
         IN  IF gammaA + gammaB = 0 THEN Half
             ELSE Frac(gammaA, gammaA + gammaB)

\* the sample of the i-th sampleBeta call of a run
SampleAt(params, rng, i) ==
    consumerSampleBeta(params.alpha, params.beta,
                       DrawAt(rng, 2 * i - 1), DrawAt(rng, 2 * i))

\* const defaultPrior = { alpha: 0.3, beta: 0.7, trials: 0, mean: 0.3 }
defaultPrior == [alpha |-> 300, beta |-> 700, trials |-> 0, mean |-> 300]

\* (learningState?.X_scores || {})[key] || defaultPrior
ParamsOrPrior(learningState, dim, key) ==
    IF learningState = Null THEN defaultPrior
    ELSE IF HasArm(learningState[1][dim], key) THEN GetArm(learningState[1][dim], key)
    ELSE defaultPrior

\* a slip that lets a later arm win a tie
RECURSIVE PickLoop_LastWins(_, _, _, _, _)
PickLoop_LastWins(names, samples, i, best, bestSample) ==
    IF i > Len(names) THEN best
    ELSE IF bestSample.num < 0 \/ ~FracLess(samples[i], bestSample)
    THEN PickLoop_LastWins(names, samples, i + 1, names[i], samples[i])
    ELSE PickLoop_LastWins(names, samples, i + 1, best, bestSample)

\* let best = ..., bestSample = -1; for (...) if (sample > bestSample) {...}
RECURSIVE PickLoop(_, _, _, _, _)
PickLoop(names, samples, i, best, bestSample) ==
    IF i > Len(names) THEN best
    ELSE IF bestSample.num < 0 \/ FracLess(bestSample, samples[i])
    THEN PickLoop(names, samples, i + 1, names[i], samples[i])
    ELSE PickLoop(names, samples, i + 1, best, bestSample)

\* post.theme || '一般'
ThemeOf(post) == IF post.theme = "" THEN "general" ELSE post.theme

\* Array.from(themeGroups.keys()): the themes in the order first seen
RECURSIVE ThemesOf(_)
ThemesOf(posts) ==
    IF posts = <<>> THEN <<>>
    ELSE LET rest == ThemesOf(SubSeq(posts, 1, Len(posts) - 1))
             t == ThemeOf(posts[Len(posts)])
         IN  IF \E i \in 1..Len(rest) : rest[i] = t THEN rest ELSE Append(rest, t)

\* themePosts.sort(by scheduled_date)[0]: the earliest, the first of equals
EarliestOf(posts) ==
    posts[CHOOSE i \in 1..Len(posts) :
            /\ \A j \in 1..Len(posts) : posts[i].scheduled_date <= posts[j].scheduled_date
            /\ \A j \in 1..(i - 1) : posts[j].scheduled_date > posts[i].scheduled_date]

\* auto_post: the theme is chosen by Thompson sampling when the pending posts
\* span several themes; the recommendation is loaded for logging only
selectPostByThompsonSampling(pendingPosts, learningState, rng) ==
    LET themes == ThemesOf(pendingPosts)
        samples == [ i \in 1..Len(themes) |->
                       SampleAt(ParamsOrPrior(learningState, "theme_scores", themes[i]), rng, i) ]
        bestTheme == PickLoop(themes, samples, 1, themes[1], Frac(-1, 1))
    IN  IF Len(themes) <= 1 THEN pendingPosts[1]
        ELSE EarliestOf(SelectSeq(pendingPosts, LAMBDA p : ThemeOf(p) = bestTheme))

approaches ==
    <<"thread", "discovery", "problem_statement", "warning", "empathy", "solution", "tips">>

\* daily_generate: the approach of highest sample
selectApproach(learningState, rng) ==
    LET samples == [ i \in 1..Len(approaches) |->
                       SampleAt(ParamsOrPrior(learningState, "approach_scores", approaches[i]), rng, i) ]
    IN  PickLoop(approaches, samples, 1, "discovery", Frac(-1, 1))

\* both variants need this many scored posts before a winner is preferred
MinVariantPosts == 10

\* auto_post: A/B by past likes, not by the learned variant statistics; r1000 is
\* the value of Math.random() in thousandths
selectVariant(postId, history, r1000) ==
    LET postHistory == SelectSeq(history, LAMBDA h : h.post_id = postId /\ h.metrics # NoMetrics)
        statsA == SelectSeq(postHistory, LAMBDA h : h.variant = "A")
        statsB == SelectSeq(postHistory, LAMBDA h : h.variant = "B")
        likesA == SumSeq([i \in 1..Len(statsA) |-> statsA[i].metrics.likes])
        likesB == SumSeq([i \in 1..Len(statsB) |-> statsB[i].metrics.likes])
        winner == IF likesA * Len(statsB) > likesB * Len(statsA) THEN "A" ELSE "B"
    IN  IF Len(statsA) >= MinVariantPosts /\ Len(statsB) >= MinVariantPosts
        THEN IF r1000 < 700 THEN winner ELSE (IF winner = "A" THEN "B" ELSE "A")
        ELSE IF r1000 < 500 THEN "A" ELSE "B"

\* the theme daily_generate never proposes from the learned arms
ExcludedTheme == "vibe_coding_limits"

Candidate(name, source, insight, params, sample) ==
    [ name |-> name, source |-> source, insight |-> insight,
      tsParams |-> params, sample |-> sample, boosted |-> sample ]

HasCandidate(candidates, name) == \E i \in 1..Len(candidates) : candidates[i].name = name

\* 1. one candidate per overseas insight, at most five
OverseasCandidates(insights, learningState, rng) ==
    [ i \in 1..Min(5, Len(insights)) |->
        LET params == ParamsOrPrior(learningState, "theme_scores", insights[i].topic)
        IN  Candidate(insights[i].topic, "overseas", Some(insights[i]), params,
                      SampleAt(params, rng, i)) ]

\* 2. one candidate per learned theme that no insight named
RECURSIVE LearnedCandidates(_, _, _, _, _)
LearnedCandidates(candidates, overseas, arms, k, rng) ==
    IF k > Len(arms) THEN candidates
    ELSE IF HasCandidate(overseas, arms[k].name) \/ arms[k].name = ExcludedTheme
    THEN LearnedCandidates(candidates, overseas, arms, k + 1, rng)
    ELSE LearnedCandidates(
             Append(candidates,
                    Candidate(arms[k].name, "learning", Null, arms[k].p,
                              SampleAt(arms[k].p, rng, Len(candidates) + 1))),
             overseas, arms, k + 1, rng)

\* 3. the recommended theme, if a recommendation was loaded and names a new one
WithRecommended(candidates, rec, learningState, rng) ==
    IF rec = Null THEN candidates
    ELSE IF rec[1].recommended.theme = "" THEN candidates
    ELSE IF HasCandidate(candidates, rec[1].recommended.theme) THEN candidates
    ELSE LET params == ParamsOrPrior(learningState, "theme_scores", rec[1].recommended.theme)
         IN  Append(candidates,
                    Candidate(rec[1].recommended.theme, "recommendation", Null, params,
                              SampleAt(params, rng, Len(candidates) + 1)))

\* the themes posted within the last two days
RecentThemes(history, today) ==
    { history[i].theme : i \in { j \in 1..Len(history) : history[j].posted_at >= today - 2 } }

\* a slip that forgets the cap of the trend boost
Boosted_NoCap(c, recent) ==
    LET fresh == c.insight # Null /\ c.insight[1].freshness >= 8 /\ c.insight[1].japan_spread <= 3
        up == IF ~fresh THEN c.sample
              ELSE Frac(3 * c.sample.num, 2 * c.sample.den)
    IN  IF c.name \in recent THEN Frac(3 * up.num, 10 * up.den) ELSE up

\* trend boost min(1.0, sample * 1.5), then the repetition penalty * 0.3
Boosted(c, recent) ==
    LET fresh == c.insight # Null /\ c.insight[1].freshness >= 8 /\ c.insight[1].japan_spread <= 3
        up == IF ~fresh THEN c.sample
              ELSE IF 3 * c.sample.num > 2 * c.sample.den THEN Frac(1, 1)
              ELSE Frac(3 * c.sample.num, 2 * c.sample.den)
    IN  IF c.name \in recent THEN Frac(3 * up.num, 10 * up.den) ELSE up

\* candidates.sort((a, b) => b.boosted - a.boosted): stable, descending
RECURSIVE InsertByBoost(_, _)
InsertByBoost(s, x) ==
    IF s = <<>> THEN <<x>>
    ELSE IF FracLess(Head(s).boosted, x.boosted) THEN <<x>> \o s
    ELSE <<Head(s)>> \o InsertByBoost(Tail(s), x)

RECURSIVE SortByBoost(_, _)
SortByBoost(s, n) == IF n = 0 THEN <<>> ELSE InsertByBoost(SortByBoost(s, n - 1), s[n])

\* the first `count` candidates of distinct names
RECURSIVE TakeDistinct(_, _, _)
TakeDistinct(selected, candidates, count) ==
    IF candidates = <<>> \/ Len(selected) >= count THEN selected
    ELSE TakeDistinct(IF HasCandidate(selected, Head(candidates).name) THEN selected
                      ELSE Append(selected, Head(candidates)),
                      Tail(candidates), count)

\* daily_generate: the themes of the day
selectThemes(insights, learningState, history, count, rec, rng, today) ==
    LET overseas == OverseasCandidates(insights, learningState, rng)
        arms == IF learningState = Null THEN <<>> ELSE learningState[1].theme_scores
        learned == LearnedCandidates(overseas, overseas, arms, 1, rng)
        all == WithRecommended(learned, rec, learningState, rng)
        recent == RecentThemes(history, today)
        boosted == [ i \in 1..Len(all) |-> [all[i] EXCEPT !.boosted = Boosted(all[i], recent)] ]
    IN  TakeDistinct(<<>>, SortByBoost(boosted, Len(boosted)), count)

\* ------------------------------------------------------- the inputs
\* Posts the posting pipeline publishes, in order.  Posts 1 and 2 share slot
\* and variant and four feature buckets and differ in theme, type, source type,
\* length bucket and hook; later posts alternate between the two shapes.
ContentOf(i) ==
    IF i % 2 = 1 THEN <<"filler100", "nl", "filler50">>
    ELSE <<"filler50", "qmark", "nl", "filler50", "filler50">>

PostOf(i) ==
    [ id |-> IF i % 2 = 1 THEN <<"hist_", i>> ELSE <<"overseas_", i>>,
      post_id |-> i,
      tweet_id |-> i,
      variant |-> "A",
      content |-> ContentOf(i),
      posted_at |-> 2 * i,
      slot |-> "morning",
      theme |-> IF i % 2 = 1 THEN "themeA" ELSE "themeB",
      type |-> IF i % 2 = 1 THEN NoType ELSE "overseas_insight",
      metrics |-> NoMetrics ]

\* metrics blocks the collector can attach (Scenario A of the spec first)
MetricsPool ==
    { [ impressions |-> 1000, likes |-> 50, retweets |-> 10, replies |-> 5,
        bookmarks |-> 20, profile_clicks |-> 0, url_clicks |-> 0 ],
      [ impressions |-> 200, likes |-> 3, retweets |-> 0, replies |-> 1,
        bookmarks |-> 0, profile_clicks |-> 0, url_clicks |-> 0 ],
      [ impressions |-> 0, likes |-> 0, retweets |-> 0, replies |-> 0,
        bookmarks |-> 0, profile_clicks |-> 0, url_clicks |-> 0 ] }

PendingWeek(w, theme, approach) ==
    [ week |-> w, theme |-> theme, approach |-> approach,
      framework_link_matched |-> FALSE,
      result |-> [ posts_count |-> 0, avg_imp |-> Null, avg_xas |-> Null,
                   avg_er |-> Null, best_post |-> Null, worst_post |-> Null ],
      verification |-> Null,
      learning |-> <<>>,
      next_action |-> "" ]

NoWeeks == <<>>

\* hypothesis logs the run can start from
InitLogs ==
    { Missing,
      File([weeks |-> NoWeeks, accumulated_learnings |-> <<>>]),
      File([ weeks |-> <<PendingWeek(1, "themeA", "unknown")>>,
             accumulated_learnings |-> << <<<<"earlier", 1>>>> >> ]) }

\* --------------------------------------------- history of updateBeta calls
NoCalls == [d \in Dims |-> <<>>]

\* the keys one result updates in a map
KeysOf(d, result) ==
    CASE d = "theme_scores" -> {result.attribution.theme}
      [] d = "approach_scores" -> {result.attribution.approach}
      [] d = "slot_scores" -> {result.attribution.slot}
      [] d = "variant_scores" -> {result.attribution.variant}
      [] d = "source_type_scores" -> {result.attribution.source_type}
      [] d = "feature_scores" ->
            LET fk == FeatureKeys(result.attribution.text_features)
            IN  { fk[i] : i \in 1..Len(fk) }

\* calls is, per map, a function from the keys updated so far to the number of
\* updateBeta calls applied to the key
CountCalls(c, results) ==
    [ d \in Dims |->
        LET new == UNION { KeysOf(d, results[i]) : i \in 1..Len(results) }
            hits(k) == Cardinality({ i \in 1..Len(results) : k \in KeysOf(d, results[i]) })
        IN  [ k \in (DOMAIN c[d]) \cup new |->
                (IF k \in DOMAIN c[d] THEN c[d][k] ELSE 0) + hits(k) ] ]

\* ------------------------------------------------ the posting pipeline
History == IF historyFile = Missing THEN <<>> ELSE historyFile[1]
HistoryLen == Len(History)

\* auto_post: loadHistory() (an absent file reads as []), history.unshift(record),
\* saveHistory(history)
AddPost ==
    /\ HistoryLen < MaxPosts
    /\ historyFile' = File(<<PostOf(HistoryLen + 1)>> \o History)
    /\ UNCHANGED <<learningFile, analysisFile, recFile, hypoLog>>
    /\ UNCHANGED <<cliVars, procVars, betaVars, consumerVars>>

\* collect_metrics: a post without metrics gets the metrics the API returned
CollectMetrics ==
    /\ historyFile # Missing
    /\ \E i \in 1..HistoryLen, m \in MetricsPool :
          /\ History[i].metrics = NoMetrics
          /\ historyFile' = File([History EXCEPT ![i].metrics = m])
    /\ UNCHANGED <<learningFile, analysisFile, recFile, hypoLog>>
    /\ UNCHANGED <<cliVars, procVars, betaVars, consumerVars>>

\* ------------------------------------------- the CLI verbs, run one at a time
\* a slip that drops the "run analyze first" guard
NothingAnalyzed_Never(state) == FALSE

\* if (state.global_stats.total_analyzed === 0) { diagnostic; return; }
NothingAnalyzed(state) == state.global_stats.total_analyzed = 0

Ran(verb, how) ==
    /\ lastVerb' = verb
    /\ outcome' = how
    /\ runs' = runs + 1

Analyze ==
    /\ runs < MaxRuns
    /\ UNCHANGED <<historyFile, recFile, hypoLog, procVars, betaVars, consumerVars>>
    /\ IF historyFile = Missing
       THEN \* readFileSync raises ENOENT
            /\ Ran("analyze", "raised")
            /\ UNCHANGED <<learningFile, analysisFile, calls>>
       ELSE IF withMetrics(History) = <<>>
       THEN /\ Ran("analyze", "early")
            /\ UNCHANGED <<learningFile, analysisFile, calls>>
       ELSE LET ld == loadLearningState(learningFile)
            IN  IF ld.raised
                THEN /\ Ran("analyze", "raised")
                     /\ UNCHANGED <<learningFile, analysisFile, calls>>
                ELSE /\ Ran("analyze", "ok")
                     /\ learningFile' = File(AnalyzedState(History, ld.state))
                     /\ analysisFile' = File(Phase1Results(History))
                     /\ calls' = CountCalls(calls, Phase1Results(History))

Verify ==
    /\ runs < MaxRuns
    /\ UNCHANGED <<historyFile, learningFile, analysisFile, recFile>>
    /\ UNCHANGED <<calls, procVars, betaVars, consumerVars>>
    /\ IF hypoLog = Missing \/ analysisFile = Missing
       THEN Ran("verify", "early") /\ UNCHANGED hypoLog
       ELSE IF hypoLog[1].weeks = NoWeeks
       THEN Ran("verify", "early") /\ UNCHANGED hypoLog
       ELSE IF \A i \in 1..Len(hypoLog[1].weeks) :
                  ~Verifiable(hypoLog[1].weeks[i], analysisFile[1])
       THEN \* nothing to verify: updated stays false and nothing is written
            Ran("verify", "ok") /\ UNCHANGED hypoLog
       ELSE LET ld == loadLearningState(learningFile)
            IN  IF ld.raised
                THEN Ran("verify", "raised") /\ UNCHANGED hypoLog
                ELSE /\ Ran("verify", "ok")
                     /\ hypoLog' = File(VerifiedLog(hypoLog[1], analysisFile[1], ld.state))

Recommend ==
    /\ runs < MaxRuns
    /\ UNCHANGED <<historyFile, learningFile, analysisFile, hypoLog>>
    /\ UNCHANGED <<calls, procVars, betaVars, consumerVars>>
    /\ LET ld == loadLearningState(learningFile)
       IN  IF ld.raised
           THEN Ran("recommend", "raised") /\ UNCHANGED recFile
           ELSE IF NothingAnalyzed(ld.state)
           THEN Ran("recommend", "early") /\ UNCHANGED recFile
           ELSE /\ Ran("recommend", "ok")
                /\ \E rng \in Rngs :
                      recFile' = File(Recommendation(ld.state, hypoLog, rng))

\* a slip that saves the state report has loaded
Report_Saving ==
    /\ runs < MaxRuns
    /\ UNCHANGED <<historyFile, analysisFile, recFile, hypoLog>>
    /\ UNCHANGED <<calls, procVars, betaVars, consumerVars>>
    /\ LET ld == loadLearningState(learningFile)
       IN  IF ld.raised THEN Ran("report", "raised") /\ UNCHANGED learningFile
           ELSE /\ learningFile' = File(ld.state)
                /\ IF NothingAnalyzed(ld.state) THEN Ran("report", "early")
                   ELSE Ran("report", "ok")

Report ==
    /\ runs < MaxRuns
    /\ UNCHANGED <<files, calls, procVars, betaVars, consumerVars>>
    /\ LET ld == loadLearningState(learningFile)
       IN  IF ld.raised THEN Ran("report", "raised")
           ELSE IF NothingAnalyzed(ld.state) THEN Ran("report", "early")
           ELSE Ran("report", "ok")

Procs == {1, 2}

\* the in-memory data of a run that has not started
Idle == [ history |-> <<>>, base |-> EmptyState, next |-> EmptyState,
          results |-> <<>>, log |-> Missing, snapshot |-> Missing,
          loadedAt |-> 0, savedAt |-> 0,
          before |-> <<Missing, Missing, Missing, Missing, Missing>> ]

Init ==
    /\ historyFile \in {Missing, File(<<>>)}
    /\ learningFile \in {Missing, Malformed}
    /\ analysisFile = Missing
    /\ recFile = Missing
    /\ hypoLog \in InitLogs
    /\ lastVerb = "none"
    /\ outcome = "none"
    /\ runs = 0
    /\ calls = NoCalls
    /\ pc = [p \in Procs |-> "idle"]
    /\ local = [p \in Procs |-> Idle]
    /\ saves = 0
    /\ overlapped = FALSE
    /\ bIn = <<initBetaParams, 0, 0>>
    /\ bOut = [applied |-> FALSE, p |-> initBetaParams]
    /\ now = 0
    /\ consumed = NotConsumed
    /\ pool = NoPool
    /\ gamma = NoGamma

Next ==
    \/ AddPost
    \/ CollectMetrics
    \/ Analyze
    \/ Verify
    \/ Recommend
    \/ Report

Spec == Init /\ [][Next]_vars

\* ------------------------------------------------ runs taken step by step
\* The same verbs with every file access a step of its own, so that runs of
\* several operating-system processes interleave and a run can die between
\* two accesses.  pc[p] is where process p stands:
\*   idle -> read -> computed -> saved -> done          (analyze)
\*   idle -> vread -> vcomputed -> done                 (verify)
\*   returned / raised / crashed: the run ended early, raised, or was killed

\* histories of n posts, each with one of the metrics blocks or none
HistoriesOf(n) ==
    { [ i \in 1..n |-> [PostOf(n + 1 - i) EXCEPT !.metrics = ms[i]] ] :
        ms \in [1..n -> MetricsPool \cup {NoMetrics}] }

InitRuns ==
    /\ historyFile \in {Missing} \cup { File(h) : h \in UNION { HistoriesOf(n) : n \in 0..MaxPosts } }
    /\ learningFile \in {Missing, Malformed}
    /\ analysisFile = Missing
    /\ recFile = Missing
    /\ hypoLog \in InitLogs
    /\ lastVerb = "none"
    /\ outcome = "none"
    /\ runs = 0
    /\ calls = NoCalls
    /\ pc = [p \in Procs |-> "idle"]
    /\ local = [p \in Procs |-> Idle]
    /\ saves = 0
    /\ overlapped = FALSE
    /\ bIn = <<initBetaParams, 0, 0>>
    /\ bOut = [applied |-> FALSE, p |-> initBetaParams]
    /\ now = 0
    /\ consumed = NotConsumed
    /\ pool = NoPool
    /\ gamma = NoGamma

Goto(p, where) == pc' = [pc EXCEPT ![p] = where]

\* analyze, lines 358-364: read the history, return early without metrics
AStart(p) ==
    /\ pc[p] = "idle"
    /\ runs < MaxRuns
    /\ runs' = runs + 1
    /\ lastVerb' = "analyze"
    /\ UNCHANGED <<files, outcome, calls, saves, overlapped, betaVars, consumerVars>>
    /\ IF historyFile = Missing
       THEN Goto(p, "raised") /\ UNCHANGED local
       ELSE IF withMetrics(History) = <<>>
       THEN Goto(p, "returned") /\ UNCHANGED local
       ELSE /\ Goto(p, "read")
            /\ local' = [local EXCEPT ![p] = [Idle EXCEPT !.history = History,
                                                         !.before = files]]

\* analyze, lines 368-487: load the state, then compute everything in memory
ALoad(p) ==
    /\ pc[p] = "read"
    /\ UNCHANGED <<files, cliVars, saves, overlapped, betaVars, consumerVars>>
    /\ LET ld == loadLearningState(learningFile)
       IN  IF ld.raised
           THEN Goto(p, "raised") /\ UNCHANGED local
           ELSE /\ Goto(p, "computed")
                /\ local' = [local EXCEPT
                       ![p].base = ld.state,
                       ![p].next = AnalyzedState(local[p].history, ld.state),
                       ![p].results = Phase1Results(local[p].history),
                       ![p].loadedAt = saves]

\* a save that would refuse to overwrite a file changed since it was loaded
ASave_Guarded(p) ==
    /\ pc[p] = "computed"
    /\ learningFile' = IF local[p].loadedAt = saves
                        THEN File(local[p].next) ELSE learningFile
    /\ saves' = saves + 1
    /\ overlapped' = (overlapped \/ local[p].loadedAt # saves)
    /\ calls' = CountCalls(calls, local[p].results)
    /\ local' = [local EXCEPT ![p].savedAt = saves + 1]
    /\ Goto(p, "saved")
    /\ UNCHANGED <<historyFile, analysisFile, recFile, hypoLog>>
    /\ UNCHANGED <<lastVerb, outcome, runs, betaVars, consumerVars>>

\* analyze, line 490: saveLearningState(state) overwrites the file in full
ASave(p) ==
    /\ pc[p] = "computed"
    /\ learningFile' = File(local[p].next)
    /\ saves' = saves + 1
    /\ overlapped' = (overlapped \/ local[p].loadedAt # saves)
    /\ calls' = CountCalls(calls, local[p].results)
    /\ local' = [local EXCEPT ![p].savedAt = saves + 1]
    /\ Goto(p, "saved")
    /\ UNCHANGED <<historyFile, analysisFile, recFile, hypoLog>>
    /\ UNCHANGED <<lastVerb, outcome, runs, betaVars, consumerVars>>

\* analyze, line 491: write the AnalyzedPost snapshot
AWrite(p) ==
    /\ pc[p] = "saved"
    /\ analysisFile' = File(local[p].results)
    /\ Goto(p, "done")
    /\ UNCHANGED <<historyFile, learningFile, recFile, hypoLog>>
    /\ UNCHANGED <<cliVars, local, saves, overlapped, betaVars, consumerVars>>

\* verify, lines 508-523: read the log and the snapshot, return early
VStart(p) ==
    /\ pc[p] = "idle"
    /\ runs < MaxRuns
    /\ runs' = runs + 1
    /\ lastVerb' = "verify"
    /\ UNCHANGED <<files, outcome, calls, saves, overlapped, betaVars, consumerVars>>
    /\ IF hypoLog = Missing \/ analysisFile = Missing
       THEN Goto(p, "returned") /\ UNCHANGED local
       ELSE IF hypoLog[1].weeks = NoWeeks
       THEN Goto(p, "returned") /\ UNCHANGED local
       ELSE /\ Goto(p, "vread")
            /\ local' = [local EXCEPT ![p] = [Idle EXCEPT !.log = hypoLog,
                                                         !.snapshot = analysisFile,
                                                         !.before = files]]

\* verify, lines 527-602: the loop; the state is loaded when an entry is verified
VLoad(p) ==
    /\ pc[p] = "vread"
    /\ UNCHANGED <<files, cliVars, saves, overlapped, betaVars, consumerVars>>
    /\ LET log == local[p].log[1]
           results == local[p].snapshot[1]
       IN  IF \A i \in 1..Len(log.weeks) : ~Verifiable(log.weeks[i], results)
           THEN Goto(p, "done") /\ UNCHANGED local
           ELSE LET ld == loadLearningState(learningFile)
                IN  IF ld.raised
                    THEN Goto(p, "raised") /\ UNCHANGED local
                    ELSE /\ Goto(p, "vcomputed")
                         /\ local' = [local EXCEPT
                                ![p].log = File(VerifiedLog(log, results, ld.state))]

\* verify, line 629: the one write of the hypothesis log
VWrite(p) ==
    /\ pc[p] = "vcomputed"
    /\ hypoLog' = local[p].log
    /\ Goto(p, "done")
    /\ UNCHANGED <<historyFile, learningFile, analysisFile, recFile>>
    /\ UNCHANGED <<cliVars, local, saves, overlapped, betaVars, consumerVars>>

\* the process is killed between two file accesses
Crash(p) ==
    /\ pc[p] \in {"read", "computed", "saved", "vread", "vcomputed"}
    /\ Goto(p, "crashed")
    /\ UNCHANGED <<files, cliVars, local, saves, overlapped, betaVars, consumerVars>>

\* the run is over; the scheduler may start the next one
Finish(p) ==
    /\ pc[p] \in {"done", "returned", "raised", "crashed"}
    /\ Goto(p, "idle")
    /\ local' = [local EXCEPT ![p] = Idle]
    /\ UNCHANGED <<files, cliVars, saves, overlapped, betaVars, consumerVars>>

\* two processes running analyze with no coordination
NextRuns ==
    \E p \in Procs :
        \/ AStart(p)
        \/ ALoad(p)
        \/ ASave(p)
        \/ AWrite(p)
        \/ Finish(p)

SpecRuns == InitRuns /\ [][NextRuns]_vars

\* one process at a time, which may be killed at any point
NextCrash ==
    \/ AStart(1)
    \/ ALoad(1)
    \/ ASave(1)
    \/ AWrite(1)
    \/ VStart(1)
    \/ VLoad(1)
    \/ VWrite(1)
    \/ Crash(1)
    \/ Finish(1)

SpecCrash == InitRuns /\ [][NextCrash]_vars

\* --------------------------------------------------- updateBeta on its own
MaxTrials == 3

\* rewards and batch maxima in hundredths: below 0, 0, inside (0, max), at the
\* max and above it
Scores == {-50, 0, 37, 80, 100, 150, 250}
MaxScores == {0, 100, 150}

InitBeta ==
    /\ historyFile = Missing
    /\ learningFile = Missing
    /\ analysisFile = Missing
    /\ recFile = Missing
    /\ hypoLog = Missing
    /\ lastVerb = "none"
    /\ outcome = "none"
    /\ runs = 0
    /\ calls = NoCalls
    /\ pc = [p \in Procs |-> "idle"]
    /\ local = [p \in Procs |-> Idle]
    /\ saves = 0
    /\ overlapped = FALSE
    /\ bIn \in {initBetaParams} \X Scores \X MaxScores
    /\ bOut = [applied |-> FALSE, p |-> initBetaParams]
    /\ now = 0
    /\ consumed = NotConsumed
    /\ pool = NoPool
    /\ gamma = NoGamma

BetaApply ==
    /\ ~bOut.applied
    /\ bOut' = [applied |-> TRUE, p |-> updateBeta(bIn[1], bIn[2], bIn[3])]
    /\ UNCHANGED <<bIn, files, cliVars, procVars, consumerVars>>

BetaAgain ==
    /\ bOut.applied
    /\ bOut.p.trials < MaxTrials
    /\ \E score \in Scores, maxScore \in MaxScores :
          bIn' = <<bOut.p, score, maxScore>>
    /\ bOut' = [applied |-> FALSE, p |-> bOut.p]
    /\ UNCHANGED <<files, cliVars, procVars, consumerVars>>

NextBeta == BetaApply \/ BetaAgain

SpecBeta == InitBeta /\ [][NextBeta]_vars

\* ------------------------------------------- verify over longer-lived logs
\* Logs as they stand after weeks of operation: one with an entry verified in
\* an earlier week, two whose accumulated_learnings are full or one short, one
\* of four weeks.
ScenarioA == CHOOSE m \in MetricsPool : m.impressions = 1000

\* the entry of week 1 as verify left it when post 1 carried the Scenario A metrics
VerifiedEarlier ==
    VerifiedWeek(PendingWeek(1, "themeA", "unknown"),
                 Phase1Results(<<[PostOf(1) EXCEPT !.metrics = ScenarioA]>>),
                 EmptyState)

Learnings(k) == [i \in 1..k |-> << <<"earlier", i>> >>]

VerifyLogs ==
    { File([ weeks |-> <<VerifiedEarlier, PendingWeek(2, "themeB", "overseas_insight")>>,
             accumulated_learnings |-> <<>> ]),
      File([ weeks |-> <<PendingWeek(1, "themeA", "unknown"),
                         PendingWeek(2, "themeB", "overseas_insight")>>,
             accumulated_learnings |-> Learnings(AccCap) ]),
      File([ weeks |-> <<PendingWeek(1, "themeA", "unknown")>>,
             accumulated_learnings |-> Learnings(AccCap - 1) ]),
      \* an entry still pending ahead of three weeks verified since
      File([ weeks |-> <<PendingWeek(1, "themeB", "overseas_insight"),
                         [VerifiedEarlier EXCEPT !.week = 2],
                         [VerifiedEarlier EXCEPT !.week = 3],
                         [VerifiedEarlier EXCEPT !.week = 4]>>,
             accumulated_learnings |-> <<VerifiedEarlier.learning>> ]) }

InitVerify ==
    /\ historyFile = File(<<>>)
    /\ learningFile = Missing
    /\ analysisFile = Missing
    /\ recFile = Missing
    /\ hypoLog \in VerifyLogs
    /\ lastVerb = "none"
    /\ outcome = "none"
    /\ runs = 0
    /\ calls = NoCalls
    /\ pc = [p \in Procs |-> "idle"]
    /\ local = [p \in Procs |-> Idle]
    /\ saves = 0
    /\ overlapped = FALSE
    /\ bIn = <<initBetaParams, 0, 0>>
    /\ bOut = [applied |-> FALSE, p |-> initBetaParams]
    /\ now = 0
    /\ consumed = NotConsumed
    /\ pool = NoPool
    /\ gamma = NoGamma

NextVerify ==
    \/ AddPost
    \/ CollectMetrics
    \/ Analyze
    \/ Verify

SpecVerify == InitVerify /\ [][NextVerify]_vars

\* ------------------------------------------------- the consumers at work
\* The engine's files as auto_post and daily_generate find them, with the
\* clock advancing between the runs.
MaxDays == 8

LowMetrics == CHOOSE m \in MetricsPool : m.impressions = 200

\* two scored posts, the older of type empathy and on the theme that
\* daily_generate does not propose from the learned arms
ConsumerHistory ==
    << [PostOf(2) EXCEPT !.metrics = LowMetrics],
       [PostOf(1) EXCEPT !.type = "empathy", !.theme = ExcludedTheme,
                         !.metrics = ScenarioA] >>

\* one pool post published twenty times, ten per variant, A the better liked
VariantHistory ==
    [ i \in 1..(2 * MinVariantPosts) |->
        [PostOf(1) EXCEPT !.variant = IF i % 2 = 1 THEN "A" ELSE "B",
                          !.metrics = IF i % 2 = 1 THEN ScenarioA ELSE LowMetrics] ]

\* pool posts awaiting publication
PoolPost(id, theme, date) == [id |-> id, theme |-> theme, scheduled_date |-> date]

PendingSets ==
    { <<PoolPost(1, "themeA", 3), PoolPost(2, "themeB", 1), PoolPost(3, "themeA", 2)>>,
      <<PoolPost(4, "themeC", 1), PoolPost(1, "themeA", 1)>>,
      <<PoolPost(2, "themeB", 2), PoolPost(5, "themeB", 1)>> }

Insight(topic, freshness, spread) ==
    [topic |-> topic, freshness |-> freshness, japan_spread |-> spread]

InsightSets ==
    { <<>>,
      <<Insight("themeC", 9, 2), Insight("themeA", 5, 5)>>,
      <<Insight("themeB", 8, 3), Insight("themeC", 7, 1)>> }

InitConsumer ==
    /\ historyFile \in {File(ConsumerHistory), File(VariantHistory)}
    /\ learningFile \in {Missing, Malformed, File(AnalyzedState(ConsumerHistory, EmptyState))}
    /\ analysisFile = Missing
    /\ recFile \in {Missing, Malformed}
    /\ hypoLog = Missing
    /\ lastVerb = "none"
    /\ outcome = "none"
    /\ runs = 0
    /\ calls = NoCalls
    /\ pc = [p \in Procs |-> "idle"]
    /\ local = [p \in Procs |-> Idle]
    /\ saves = 0
    /\ overlapped = FALSE
    /\ bIn = <<initBetaParams, 0, 0>>
    /\ bOut = [applied |-> FALSE, p |-> initBetaParams]
    /\ now = 0
    /\ consumed = NotConsumed
    /\ pool = NoPool
    /\ gamma = NoGamma

\* a day passes
Tick ==
    /\ now < MaxDays
    /\ now' = now + 1
    /\ UNCHANGED <<files, cliVars, procVars, betaVars, consumed, pool, gamma>>

\* auto_post, lines 444-461: pick the post and its variant
AutoPostSelection ==
    /\ \E pendingPosts \in PendingSets, rng \in Uniforms :
          LET learningState == consumerLoadLearningState(learningFile)
              post == selectPostByThompsonSampling(pendingPosts, learningState, rng)
              r == DrawAt(rng, 2 * Len(ThemesOf(pendingPosts)) + 1)
          IN  consumed' = [ who |-> "auto_post",
                            pendingPosts |-> pendingPosts,
                            rng |-> rng,
                            learningState |-> learningState,
                            rec |-> loadRecommendation(recFile, now),
                            post |-> post,
                            variant |-> selectVariant(post.id, History, IF r = 1000 THEN 999 ELSE r) ]
    /\ UNCHANGED <<files, cliVars, procVars, betaVars, now, pool, gamma>>

\* daily_generate, lines 792-829: pick the themes of the day and an approach
DailyGenerateSelection ==
    /\ \E insights \in InsightSets, rng \in Uniforms :
          LET learningState == consumerLoadLearningState(learningFile)
              noCandidates == /\ insights = <<>>
                              /\ \/ learningState = Null
                                 \/ learningState[1].theme_scores = <<>>
              rec == loadRecommendation(recFile, now)
              themes == IF noCandidates THEN <<>>
                        ELSE selectThemes(insights, learningState, History, 3, rec, rng, now)
          IN  consumed' = [ who |-> "daily_generate",
                            insights |-> insights,
                            rng |-> rng,
                            learningState |-> learningState,
                            rec |-> IF noCandidates THEN Null ELSE rec,
                            themes |-> themes,
                            approach |-> IF themes = <<>> THEN ""
                                         ELSE selectApproach(learningState, rng) ]
    /\ UNCHANGED <<files, cliVars, procVars, betaVars, now, pool, gamma>>

\* the consumer process exits
ConsumerExit ==
    /\ consumed # NotConsumed
    /\ consumed' = NotConsumed
    /\ UNCHANGED <<files, cliVars, procVars, betaVars, now, pool, gamma>>

NextConsumer ==
    \/ consumed = NotConsumed /\ Recommend
    \/ consumed = NotConsumed /\ Tick
    \/ consumed = NotConsumed /\ AutoPostSelection
    \/ consumed = NotConsumed /\ DailyGenerateSelection
    \/ ConsumerExit

SpecConsumer == InitConsumer /\ [][NextConsumer]_vars

\* ----------------------------------------------- the samplers on their own
\* sampleBeta of the engine is a clamped normal approximation.  Its two
\* uniform draws enter through Box-Muller: Radius(u1) = sqrt(-2 ln u1) and
\* Cosine(u2) = cos(2 pi u2), tabulated in thousandths for the draws below
\* (u1 = 0 gives an infinite radius; cos(2 pi 0.25) is a tiny positive double).
U1 == {0, 1, 135, 607, 999}
U2 == {0, 125, 250, 500}

Radius(u1) ==
    CASE u1 = 0 -> Infinity
      [] u1 = 1 -> 3717
      [] u1 = 135 -> 2001
      [] u1 = 607 -> 999
      [] u1 = 999 -> 45

Cosine(u2) ==
    CASE u2 = 0 -> 1000
      [] u2 = 125 -> 707
      [] u2 = 250 -> 0
      [] u2 = 500 -> -1000

\* Math.sqrt on integers: the largest r with r * r <= n
RECURSIVE Newton(_, _)
Newton(n, r) ==
    IF r * r <= n /\ (r + 1) * (r + 1) > n THEN r
    ELSE Newton(n, (r + n \div r) \div 2)

Sqrt(n) == IF n = 0 THEN 0 ELSE Newton(n, Min(n, 46339))

\* Math.sqrt(variance) in thousandths, with
\* variance = alpha * beta / ((alpha + beta)^2 * (alpha + beta + 1))
Stddev(alpha, beta) ==
    LET s == alpha + beta
        q == 1000 * ((alpha * beta) \div (s + 1000))
                 + (1000 * ((alpha * beta) % (s + 1000))) \div (s + 1000)
    IN  (1000 * Sqrt(q)) \div s

\* a slip that returns the unclamped sample
sampleBeta_NoClamp(params, u1, u2) ==
    IF params.alpha <= 0 \/ params.beta <= 0 THEN 500
    ELSE LET mean == (1000 * params.alpha) \div (params.alpha + params.beta)
             stddev == Stddev(params.alpha, params.beta)
         IN  IF Radius(u1) = Infinity
             THEN (IF Cosine(u2) >= 0 THEN Infinity ELSE -Infinity)
             ELSE mean + (((Radius(u1) * Cosine(u2)) \div 1000) * stddev) \div 1000

\* sampleBeta of the engine, in thousandths
sampleBeta(params, u1, u2) ==
    IF params.alpha <= 0 \/ params.beta <= 0 THEN 500
    ELSE LET mean == (1000 * params.alpha) \div (params.alpha + params.beta)
             stddev == Stddev(params.alpha, params.beta)
             sample == IF Radius(u1) = Infinity
                       THEN (IF Cosine(u2) >= 0 THEN Infinity ELSE -Infinity)
                       ELSE mean + (((Radius(u1) * Cosine(u2)) \div 1000) * stddev) \div 1000
         IN  Min(1000, Max(0, sample))

\* shape parameters, valid and not
SampleParams ==
    { [alpha |-> a, beta |-> b, trials |-> 0, mean |-> 0] :
        a \in {-500, 0, 300, 1100, 2300}, b \in {0, 700, 900, 1700} }

InitSample ==
    /\ historyFile = Missing
    /\ learningFile = Missing
    /\ analysisFile = Missing
    /\ recFile = Missing
    /\ hypoLog = Missing
    /\ lastVerb = "none"
    /\ outcome = "none"
    /\ runs = 0
    /\ calls = NoCalls
    /\ pc = [p \in Procs |-> "idle"]
    /\ local = [p \in Procs |-> Idle]
    /\ saves = 0
    /\ overlapped = FALSE
    /\ bIn \in SampleParams \X U1 \X U2 \X {0, 1000} \X {0, 1000}
    /\ bOut = [applied |-> FALSE, p |-> initBetaParams]
    /\ now = 0
    /\ consumed = NotConsumed
    /\ pool = NoPool
    /\ gamma = NoGamma

\* one call of each sampler on the same shape parameters
SampleApply ==
    /\ ~bOut.applied
    /\ bOut' = [ applied |-> TRUE,
                 p |-> [ engine |-> sampleBeta(bIn[1], bIn[2], bIn[3]),
                         consumer |-> consumerSampleBeta(bIn[1].alpha, bIn[1].beta,
                                                         bIn[4], bIn[5]) ] ]
    /\ UNCHANGED <<bIn, files, cliVars, procVars, consumerVars>>

NextSample == SampleApply

SpecSample == InitSample /\ [][NextSample]_vars

\* ------------------------------------------------ calculateXAS on its own
\* metrics blocks of three shapes: all seven counts, the five counts of the
\* spec's Scenario A, and impressions alone
XASInputs ==
    { [ impressions |-> i, likes |-> l, retweets |-> rt, replies |-> rp,
        bookmarks |-> b, profile_clicks |-> pcl, url_clicks |-> u ] :
        i \in {0, 1, 3, 7, 1000}, l \in {0, 1, 50}, rt \in {0, 10},
        rp \in {0, 1, 5}, b \in {0, 20}, pcl \in {0, 2}, u \in {0, 1} }
    \cup { [ impressions |-> i, likes |-> l, retweets |-> rt, replies |-> rp,
             bookmarks |-> b ] :
             i \in {0, 1, 3, 7, 1000}, l \in {0, 1, 50}, rt \in {0, 10},
             rp \in {0, 1, 5}, b \in {0, 20} }
    \cup { [ impressions |-> i ] : i \in {0, 1, 3, 7, 1000} }

InitXAS ==
    /\ historyFile = Missing
    /\ learningFile = Missing
    /\ analysisFile = Missing
    /\ recFile = Missing
    /\ hypoLog = Missing
    /\ lastVerb = "none"
    /\ outcome = "none"
    /\ runs = 0
    /\ calls = NoCalls
    /\ pc = [p \in Procs |-> "idle"]
    /\ local = [p \in Procs |-> Idle]
    /\ saves = 0
    /\ overlapped = FALSE
    /\ bIn \in XASInputs
    /\ bOut = [applied |-> FALSE, p |-> initBetaParams]
    /\ now = 0
    /\ consumed = NotConsumed
    /\ pool = NoPool
    /\ gamma = NoGamma

XASApply ==
    /\ ~bOut.applied
    /\ bOut' = [applied |-> TRUE, p |-> calculateXAS(bIn)]
    /\ UNCHANGED <<bIn, files, cliVars, procVars, consumerVars>>

NextXAS == XASApply

SpecXAS == InitXAS /\ [][NextXAS]_vars

\* ------------------------------- posts generated, published and scored
\* daily_generate fills the pool, smart_post launches auto_post for the slots
\* that are due, collect_metrics and analyze score what was published.  The
\* clock `now` is the day in Japan (getTodayJST); a run takes place at an hour
\* of that day.  A history record keeps the date of its ISO timestamp in
\* posted_at and the hour in posted_hour, both in UTC as toISOString gives them.
MaxPublished == 2

\* the last day of the run
LastDay == 2

\* the slots pool posts are scheduled for, with their hour in smart_post's SLOTS
SlotHours == [morning |-> 8, noon |-> 12, night |-> 21]

\* const SLOTS = ['morning', 'noon', 'night'] of daily_generate
DailySlots == <<"morning", "noon", "night">>

\* the hours in Japan at which smart_post is started
RunHours == {8, 12, 23}

\* new Date().toISOString() at hour `hour` of day `day` in Japan (UTC+9)
UtcDay(day, hour) == IF hour < 9 THEN day - 1 ELSE day
UtcHour(hour) == (hour + 15) % 24

\* the date in Japan of a stored timestamp
JstDay(record) ==
    IF record.posted_hour + 9 >= 24 THEN record.posted_at + 1 ELSE record.posted_at

\* smart_post: the slots that already have a post today
getTodayPostedSlots(history, today) ==
    { history[i].slot : i \in { j \in 1..Len(history) : JstDay(history[j]) = today } }

\* smart_post: a slot is due once its hour has come and nothing was posted in it
SlotIsDue(slot, currentHour, history, today) ==
    currentHour >= SlotHours[slot] /\ slot \notin getTodayPostedSlots(history, today)

\* auto_post: the key `${post_id}_${date}` is the pair of its parts
getPendingPosts(posts, history, slot, today) ==
    LET postedIds == { <<history[i].post_id, history[i].posted_at>> : i \in 1..Len(history) }
    IN  SelectSeq(posts, LAMBDA p :
            /\ p.scheduled_date <= today
            /\ p.slot = slot
            /\ p.status = "active"
            /\ <<p.id, p.scheduled_date>> \notin postedIds)

\* the record auto_post puts at the head of the history
PostRecord(post, variant, slot, stamp, day, hour) ==
    [ id |-> IF post.id[1] = "overseas_" THEN post.id ELSE <<"hist_", stamp>>,
      post_id |-> post.id,
      tweet_id |-> stamp,
      variant |-> variant,
      content |-> post.variants[variant],
      posted_at |-> UtcDay(day, hour),
      posted_hour |-> UtcHour(hour),
      slot |-> slot,
      theme |-> post.theme,
      type |-> IF post.type = "" THEN NoType ELSE post.type,
      metrics |-> NoMetrics ]

\* a pool entry.  `origin` is no field of the program's entry: it keeps, for
\* the properties, the source of the theme candidate the post was written for.
PoolEntry(id, date, slot, topic, theme, type, status, source, origin) ==
    [ id |-> id, scheduled_date |-> date, slot |-> slot, topic |-> topic,
      theme |-> theme, type |-> type,
      variants |-> [A |-> ContentOf(1), B |-> ContentOf(2)],
      status |-> status, source |-> source, origin |-> origin ]

\* daily_generate: the pool entry of one slot
GeneratedPost(theme, slot, approach, today) ==
    PoolEntry(<<"daily_", today, slot>>, today, slot,
              IF theme.insight # Null THEN theme.insight[1].topic ELSE theme.name,
              theme.name, approach, "active", "daily_auto", theme.source)

IsPosted(p, history) == \E i \in 1..Len(history) : history[i].post_id = p.id

\* more active entries than this are trimmed, the oldest first
ActiveCap == 30

RECURSIVE RemoveOldest(_, _)
RemoveOldest(posts, k) ==
    LET active == { i \in 1..Len(posts) : posts[i].status = "active" }
    IN  IF k <= 0 \/ active = {} THEN posts
        ELSE LET first == CHOOSE i \in active :
                              /\ \A j \in active : posts[i].scheduled_date <= posts[j].scheduled_date
                              /\ \A j \in active : j < i =>
                                     posts[j].scheduled_date > posts[i].scheduled_date
             IN  RemoveOldest(SubSeq(posts, 1, first - 1)
                                \o SubSeq(posts, first + 1, Len(posts)), k - 1)

\* daily_generate: entries posted and more than three days old go, then the
\* active entries beyond the cap
cleanupPool(posts, history, today) ==
    LET kept == SelectSeq(posts, LAMBDA p :
                    ~(p.scheduled_date < today - 3 /\ IsPosted(p, history)))
        active == SelectSeq(kept, LAMBDA p : p.status = "active")
    IN  RemoveOldest(kept, Len(active) - ActiveCap)

\* daily_generate: each generated post replaces the entry of its id and the
\* daily entry of its day and slot
RECURSIVE Overwrite(_, _, _)
Overwrite(posts, generated, today) ==
    IF generated = <<>> THEN posts
    ELSE LET post == Head(generated)
             others == SelectSeq(posts, LAMBDA p :
                           ~(\/ p.id = post.id
                             \/ (p.source = "daily_auto" /\ p.scheduled_date = today
                                 /\ p.slot = post.slot)))
         IN  Overwrite(Append(others, post), Tail(generated), today)

\* the pool before the first run: two hand-written entries, one of them paused
InitPool ==
    << PoolEntry(<<"pool_", 1>>, 1, "morning", "themeA", "themeA", "empathy",
                 "active", "manual", "manual"),
       PoolEntry(<<"pool_", 2>>, 1, "noon", "themeB", "themeB", "tips",
                 "paused", "manual", "manual") >>

InitPost ==
    /\ historyFile = Missing
    /\ learningFile = Missing
    /\ analysisFile = Missing
    /\ recFile = Missing
    /\ hypoLog = Missing
    /\ lastVerb = "none"
    /\ outcome = "none"
    /\ runs = 0
    /\ calls = NoCalls
    /\ pc = [p \in Procs |-> "idle"]
    /\ local = [p \in Procs |-> Idle]
    /\ saves = 0
    /\ overlapped = FALSE
    /\ bIn = <<initBetaParams, 0, 0>>
    /\ bOut = [applied |-> FALSE, p |-> initBetaParams]
    /\ now = 1
    /\ consumed = NotConsumed
    /\ pool = InitPool
    /\ gamma = NoGamma

\* daily_generate, main: select the themes, write one post per slot, clean the
\* pool up and save it
DailyGenerate ==
    \* the daily job runs once a day
    /\ \A i \in 1..Len(pool) :
          ~(pool[i].source = "daily_auto" /\ pool[i].scheduled_date = now)
    /\ \E insights \in InsightSets, rng \in Uniforms, slotCount \in {1, 2} :
          LET learningState == consumerLoadLearningState(learningFile)
              noCandidates == /\ insights = <<>>
                              /\ \/ learningState = Null
                                 \/ learningState[1].theme_scores = <<>>
              selectedThemes == selectThemes(insights, learningState, History, slotCount,
                                             loadRecommendation(recFile, now), rng, now)
              generatedPosts ==
                  [ i \in 1..Min(Len(selectedThemes), slotCount) |->
                      GeneratedPost(selectedThemes[i], DailySlots[i],
                                    selectApproach(learningState, rng), now) ]
          IN  /\ ~noCandidates
              /\ selectedThemes # <<>>
              /\ pool' = Overwrite(cleanupPool(pool, History, now), generatedPosts, now)
    /\ UNCHANGED <<files, cliVars, procVars, betaVars, now, consumed, gamma>>

\* smart_post starting auto_post for a slot that is due: pick a pending post
\* and its variant, publish it and record it
AutoPost ==
    /\ HistoryLen < MaxPublished
    /\ \E slot \in DOMAIN SlotHours, currentHour \in RunHours, rng \in Uniforms :
          /\ SlotIsDue(slot, currentHour, History, now)
          /\ LET pendingPosts == getPendingPosts(pool, History, slot, now)
                 learningState == consumerLoadLearningState(learningFile)
                 post == selectPostByThompsonSampling(pendingPosts, learningState, rng)
                 r == DrawAt(rng, 2 * Len(ThemesOf(pendingPosts)) + 1)
                 variant == selectVariant(post.id, History, IF r = 1000 THEN 999 ELSE r)
             IN  /\ pendingPosts # <<>>
                 /\ historyFile' = File(<<PostRecord(post, variant, slot, HistoryLen + 1,
                                                     now, currentHour)>> \o History)
    /\ UNCHANGED <<learningFile, analysisFile, recFile, hypoLog>>
    /\ UNCHANGED <<cliVars, procVars, betaVars, consumerVars>>

NextPost ==
    \/ now < LastDay /\ Tick
    \/ DailyGenerate
    \/ AutoPost

SpecPost == InitPost /\ [][NextPost]_vars

\* The first day of the pipeline up to the scoring of its first published
\* post: daily_generate, auto_post, the metrics collection and analyze.
NextAttribution ==
    \/ HistoryLen = 0 /\ DailyGenerate
    \/ HistoryLen = 0 /\ AutoPost
    \/ CollectMetrics
    \/ Analyze

SpecAttribution == InitPost /\ [][NextAttribution]_vars

\* ------------------------------------- sampleBeta, one draw at a time
\* sampleBeta of the consumers, run statement by statement: the two
\* sampleGamma calls, the recursion for shape < 1, the do-while that redraws
\* the normal while v <= 0, and the while (true) that ends at the first
\* acceptance test that passes.  Shapes are in thousandths.
MaxRounds == 2
MaxDepth == 2
GammaShapes == {0, 300, 700, 1000, 1300, 2700}

\* the values of normalRandom() and of Math.random() that are drawn; 1000
\* stands for the largest double below 1
NormalDraws == {-3, 0, 3}
UniformDraws == {0, 1000}

\* a slip that recurses on the shape it was given
RecurseOn_SameShape(shape) == shape

\* sampleGamma(shape + 1)
RecurseOn(shape) == shape + 1000

\* v = 1 + c * x <= 0 with c = 1 / sqrt(9 * d) and d = shape - 1/3, that is
\* x < 0 and x^2 >= 9 * d
VNotPositive(shape, x) == x < 0 /\ 1000 * x * x >= 3 * (3 * shape - 1000)

\* u < 1.0 - 0.0331 * x^4
FirstTest(x, u) ==
    IF x = 0 THEN TRUE ELSE 10 * u < 10000 - 331 * x * x * x * x

\* Math.log(u) < 0.5 * x^2 + d * (1.0 - v + Math.log(v)).  The right side is
\* 0 at x = 0 and below -1e-3 at x = 3 and x = -3 for the shapes above, while
\* Math.log(u) is -Infinity at u = 0 and about -1.1e-16 at the largest double
\* below 1.
SecondTest(x, u) == u = 0 \/ x = 0

InitGamma ==
    /\ historyFile = Missing
    /\ learningFile = Missing
    /\ analysisFile = Missing
    /\ recFile = Missing
    /\ hypoLog = Missing
    /\ lastVerb = "none"
    /\ outcome = "none"
    /\ runs = 0
    /\ calls = NoCalls
    /\ pc = [p \in Procs |-> "idle"]
    /\ local = [p \in Procs |-> Idle]
    /\ saves = 0
    /\ overlapped = FALSE
    /\ bIn = <<initBetaParams, 0, 0>>
    /\ bOut = [applied |-> FALSE, p |-> initBetaParams]
    /\ now = 0
    /\ consumed = NotConsumed
    /\ pool = NoPool
    /\ \E a \in GammaShapes, b \in GammaShapes :
          gamma = [NoGamma EXCEPT !.pc = "sampleBeta", !.alpha = a, !.beta = b]

GammaFrame == <<files, cliVars, procVars, betaVars, now, consumed, pool>>

\* if (alpha <= 0 || beta <= 0) return 0.5; const gammaA = sampleGamma(alpha)
SampleBetaCall ==
    /\ gamma.pc = "sampleBeta"
    /\ gamma' = IF gamma.alpha <= 0 \/ gamma.beta <= 0
                THEN [gamma EXCEPT !.pc = "done"]
                ELSE [gamma EXCEPT !.pc = "sampleGamma", !.arg = "A",
                                   !.shape = gamma.alpha]
    /\ UNCHANGED GammaFrame

\* function entry: the recursive call for shape < 1, else d and c are set
\* and the loop is entered
SampleGammaCall ==
    /\ gamma.pc = "sampleGamma"
    /\ gamma' = IF gamma.shape < 1000
                THEN [gamma EXCEPT !.shape = RecurseOn(gamma.shape),
                                   !.depth = Min(gamma.depth + 1, MaxDepth)]
                ELSE [gamma EXCEPT !.pc = "normal"]
    /\ UNCHANGED GammaFrame

\* do { x = normalRandom(); v = 1.0 + c * x; } while (v <= 0)
NormalRandom ==
    /\ gamma.pc = "normal"
    /\ \E x \in NormalDraws :
          gamma' = IF VNotPositive(gamma.shape, x)
                   THEN [gamma EXCEPT !.x = x,
                                      !.redraws = Min(gamma.redraws + 1, MaxRounds)]
                   ELSE [gamma EXCEPT !.x = x, !.pc = "uniform"]
    /\ UNCHANGED GammaFrame

\* const u = Math.random(); the two acceptance tests; back to the top of
\* while (true) when both fail
AcceptanceTests ==
    /\ gamma.pc = "uniform"
    /\ \E u \in UniformDraws :
          gamma' = IF FirstTest(gamma.x, u) \/ SecondTest(gamma.x, u)
                   THEN [gamma EXCEPT !.pc = "return"]
                   ELSE [gamma EXCEPT !.pc = "normal",
                                      !.rounds = Min(gamma.rounds + 1, MaxRounds)]
    /\ UNCHANGED GammaFrame

\* return d * v: into the caller that multiplies by Math.pow(Math.random(),
\* 1.0 / shape), or into sampleBeta, which calls sampleGamma(beta) next and
\* returns after it
SampleGammaReturn ==
    /\ gamma.pc = "return"
    /\ gamma' = IF gamma.depth > 0
                THEN [gamma EXCEPT !.depth = gamma.depth - 1]
                ELSE IF gamma.arg = "A"
                THEN [gamma EXCEPT !.pc = "sampleGamma", !.arg = "B",
                                   !.shape = gamma.beta]
                ELSE [gamma EXCEPT !.pc = "done"]
    /\ UNCHANGED GammaFrame

NextGamma ==
    \/ SampleBetaCall
    \/ SampleGammaCall
    \/ NormalRandom
    \/ AcceptanceTests
    \/ SampleGammaReturn

\* Fair random draws: the statements of the run are always taken, and a draw
\* that is possible again and again is eventually drawn (every round of
\* either loop has the same positive chance to end it, independently of the
\* rounds before).
Leaves(A, position) == A /\ gamma'.pc # position

FairDraws ==
    /\ WF_vars(SampleBetaCall)
    /\ WF_vars(SampleGammaCall)
    /\ WF_vars(SampleGammaReturn)
    /\ SF_vars(Leaves(NormalRandom, "normal"))
    /\ SF_vars(Leaves(AcceptanceTests, "normal"))

SpecGamma == InitGamma /\ [][NextGamma]_vars /\ FairDraws

\* ====================================================== the claims
IsState(file) == file # Missing /\ file # Malformed
StateOf(file) == IF IsState(file) THEN file[1] ELSE EmptyState
TrialsTotal(map) == SumSeq([i \in 1..Len(map) |-> map[i].p.trials])
TrialsOf(map, k) == IF HasArm(map, k) THEN GetArm(map, k).trials ELSE 0
CallsTotal(c) == LET RECURSIVE Sum(_)
                     Sum(K) == IF K = {} THEN 0
                               ELSE LET k == CHOOSE x \in K : TRUE
                                    IN  c[k] + Sum(K \ {k})
                 IN  Sum(DOMAIN c)
\* a CLI run of the sequential specification has just ended
RanStep(verb) == runs' = runs + 1 /\ lastVerb' = verb
\* the arm keys a history record stands for, read off the record itself
RawKeys(d, post) ==
    CASE d = "theme_scores" -> {post.theme}
      [] d = "approach_scores" -> {IF post.type = NoType THEN "unknown" ELSE post.type}
      [] d = "slot_scores" -> {post.slot}
      [] d = "variant_scores" -> {post.variant}
      [] d = "source_type_scores" -> {sourceTypeOf(post)}
      [] d = "feature_scores" ->
            LET fk == FeatureKeys(extractTextFeatures(post.content))
            IN  { fk[i] : i \in 1..Len(fk) }

\* C1: in every LearningState reachable from the empty state by analyze runs,
\* every arm of all six score maps has alpha > 0 and beta > 0.
C1_PositiveParams ==
    IsState(learningFile) =>
        \A d \in Dims : \A i \in 1..Len(learningFile[1][d]) :
            /\ learningFile[1][d][i].p.alpha > 0
            /\ learningFile[1][d][i].p.beta > 0

\* an arm updated at least twice, and an arm whose only rewards were 0
C1_Witness ==
    /\ IsState(learningFile)
    /\ \E d \in Dims : \E i \in 1..Len(learningFile[1][d]) :
          learningFile[1][d][i].p.trials >= 2
    /\ \E i \in 1..Len(learningFile[1].theme_scores) :
          learningFile[1].theme_scores[i].p.alpha = 300

\* C2: updateBeta returns alpha + n, beta + (1 - n), trials + 1 and
\* mean = alpha' / (alpha' + beta'), each stored to 3 decimals, where
\* n = clamp(r / max(r_max, 1), 0, 1); so trials rise by exactly 1, alpha and
\* beta never fall, and (0.3, 0.7, 0) with n = 0.8 becomes (1.1, 0.9, 1, 0.55).
C2_UpdateBeta ==
    bOut.applied =>
        LET p == bIn[1]
            m == IF bIn[3] < 100 THEN 100 ELSE bIn[3]
            n == IF bIn[2] < 0 THEN 0 ELSE IF bIn[2] > m THEN m ELSE bIn[2]
            o == bOut.p
            \* the exact results, times m (alpha, beta) and times sum (mean)
            exactAlpha == p.alpha * m + 1000 * n
            exactBeta == p.beta * m + 1000 * (m - n)
            sum == (p.alpha + p.beta + 1000) * m
            Within(stored, exact, unit) ==
                /\ 2 * (stored * unit - exact) <= unit
                /\ 2 * (exact - stored * unit) <= unit
        IN  /\ o.trials = p.trials + 1
            /\ o.alpha >= p.alpha
            /\ o.beta >= p.beta
            /\ Within(o.alpha, exactAlpha, m)
            /\ Within(o.beta, exactBeta, m)
            /\ Within(o.mean, 1000 * exactAlpha, sum)
            /\ (p = initBetaParams /\ bIn[2] = 80 /\ bIn[3] = 100) =>
                   o = [alpha |-> 1100, beta |-> 900, trials |-> 1, mean |-> 550]

\* Scenario B has been computed
C2_Witness ==
    /\ bOut.applied
    /\ bIn = <<initBetaParams, 80, 100>>
    /\ bOut.p.alpha = 1100

\* C3: across analyze, verify, recommend and report runs an arm once present is
\* never removed and never reset: its trials never decrease and equal the
\* number of updateBeta calls applied to it since it was created.
C3_Step ==
    /\ IsState(learningFile) =>
          /\ IsState(learningFile')
          /\ \A d \in Dims : \A i \in 1..Len(learningFile[1][d]) :
                LET arm == learningFile[1][d][i]
                IN  /\ HasArm(learningFile'[1][d], arm.name)
                    /\ GetArm(learningFile'[1][d], arm.name).trials >= arm.p.trials
    /\ IsState(learningFile') =>
          \A d \in Dims :
              /\ ArmNames(learningFile'[1][d]) = DOMAIN calls'[d]
              /\ \A i \in 1..Len(learningFile'[1][d]) :
                    LET arm == learningFile'[1][d][i]
                    IN  arm.p.trials = calls'[d][arm.name]

C3_ArmsPersist == [][C3_Step]_vars

\* a verb other than analyze has run over arms that were updated twice
C3_Witness ==
    /\ lastVerb \in {"verify", "recommend", "report"}
    /\ outcome = "ok"
    /\ IsState(learningFile)
    /\ \E i \in 1..Len(learningFile[1].theme_scores) :
          learningFile[1].theme_scores[i].p.trials >= 2

\* C4: one analyze run over a history with n records that carry metrics
\* updates, per such record, exactly one arm in each of the theme, approach,
\* slot, variant and source-type maps and exactly six distinct arms of
\* feature_scores: trials grow by n in each of the five maps and by 6n in
\* feature_scores; a record without metrics changes no arm and no statistic.
C4_Step ==
    (RanStep("analyze") /\ outcome' = "ok") =>
        LET old == StateOf(learningFile)
            new == learningFile'[1]
            recs == withMetrics(History)
            n == Len(recs)
        IN  /\ \A d \in Dims :
                  LET per == IF d = "feature_scores" THEN 6 ELSE 1
                  IN  /\ TrialsTotal(new[d]) = TrialsTotal(old[d]) + per * n
                      /\ \A i \in 1..n : Cardinality(RawKeys(d, recs[i])) = per
                      /\ \A k \in ArmNames(new[d]) :
                            TrialsOf(new[d], k) - TrialsOf(old[d], k)
                                = Cardinality({ i \in 1..n : k \in RawKeys(d, recs[i]) })
            /\ new.global_stats.total_analyzed = n
            \* the records without metrics could as well not be there
            /\ new = AnalyzedState(recs, old)

C4_BatchUpdate == [][C4_Step]_vars

\* analyze has run a second time, over a history that holds a record without metrics
C4_Witness ==
    /\ lastVerb = "analyze"
    /\ outcome = "ok"
    /\ IsState(learningFile)
    /\ Len(withMetrics(History)) < HistoryLen
    /\ learningFile[1].global_stats.total_analyzed = Len(withMetrics(History))
    /\ TrialsTotal(learningFile[1].feature_scores) >= 12

\* C5: a verb that exits early on an unmet precondition - analyze without any
\* metrics, verify without hypothesis log, snapshot or weeks, recommend with
\* total_analyzed = 0 - returns without raising and writes no file.
C5_Step ==
    /\ (runs' = runs + 1 /\ outcome' = "early") => UNCHANGED files
    /\ (RanStep("analyze") /\ historyFile # Missing /\ withMetrics(History) = <<>>)
          => outcome' = "early"
    /\ (RanStep("verify")
        /\ (hypoLog = Missing \/ analysisFile = Missing \/ hypoLog[1].weeks = NoWeeks))
          => outcome' = "early"
    /\ (RanStep("recommend") /\ learningFile # Malformed
        /\ StateOf(learningFile).global_stats.total_analyzed = 0)
          => outcome' = "early"

C5_EarlyExitWritesNothing == [][C5_Step]_vars

\* recommend has returned early while a history and a hypothesis log exist
C5_Witness ==
    /\ lastVerb = "recommend"
    /\ outcome = "early"
    /\ HistoryLen >= 1
    /\ hypoLog # Missing

\* C6: analyze ingests only newly-scored posts; a second analyze run on an
\* unchanged history leaves every arm's alpha, beta and trials unchanged.
C6_Step ==
    (RanStep("analyze") /\ outcome' = "ok"
     /\ IsState(learningFile) /\ analysisFile = File(Phase1Results(History)))
        => \A d \in Dims : learningFile'[1][d] = learningFile[1][d]

C6_NoReingestion == [][C6_Step]_vars

\* C7: if two analyze runs overlap so that both load LearningState before
\* either saves, the later save overwrites the earlier and one run's updates
\* are lost; when no runs overlap, the updates of every run are retained.
C7_LostUpdate ==
    /\ (~overlapped /\ IsState(learningFile)) =>
          \A d \in Dims : \A i \in 1..Len(learningFile[1][d]) :
              learningFile[1][d][i].p.trials = calls[d][learningFile[1][d][i].name]
    /\ \A p \in Procs :
          (pc[p] \in {"saved", "done"} /\ local[p].savedAt = saves) =>
              /\ learningFile = File(local[p].next)
              /\ local[p].savedAt > local[p].loadedAt + 1 =>
                    /\ TrialsTotal(learningFile[1].slot_scores)
                          = TrialsTotal(local[p].base.slot_scores) + Len(local[p].results)
                    /\ TrialsTotal(learningFile[1].slot_scores)
                          < CallsTotal(calls.slot_scores)

\* both runs loaded the same state, both saved: the first save is gone
C7_Witness ==
    /\ pc[1] = "done"
    /\ pc[2] = "done"
    /\ local[1].loadedAt = local[2].loadedAt
    /\ overlapped
    /\ TrialsTotal(learningFile[1].slot_scores) < CallsTotal(calls.slot_scores)

\* C8: a run that crashes at any point leaves every persisted output exactly
\* as it was before the run started.
C8_CrashLeavesFilesUntouched ==
    pc[1] = "crashed" => files = local[1].before

\* C9: when the persisted LearningState file is malformed, loading it yields
\* the empty default state and the run proceeds instead of raising.
C9_MalformedStateNotFatal ==
    (lastVerb \in {"analyze", "verify", "recommend", "report"}
     /\ learningFile = Malformed /\ historyFile # Missing) => outcome # "raised"

\* C10: missing inputs are never fatal: analyze with no history file, no prior
\* LearningState file or records without metrics completes without raising.
C10_MissingInputNotFatal ==
    (lastVerb = "analyze" /\ learningFile # Malformed) => outcome # "raised"

\* C11: a HypothesisEntry that is already verified (result.avg_imp non-null) is
\* skipped by every later verify run: its result, verification, learning and
\* next_action never change again, whatever posts are analyzed afterwards.
C11_Step ==
    hypoLog # Missing =>
        /\ hypoLog' # Missing
        /\ \A i \in 1..Len(hypoLog[1].weeks) :
              hypoLog[1].weeks[i].result.avg_imp # Null =>
                  /\ i <= Len(hypoLog'[1].weeks)
                  /\ hypoLog'[1].weeks[i].result = hypoLog[1].weeks[i].result
                  /\ hypoLog'[1].weeks[i].verification = hypoLog[1].weeks[i].verification
                  /\ hypoLog'[1].weeks[i].learning = hypoLog[1].weeks[i].learning
                  /\ hypoLog'[1].weeks[i].next_action = hypoLog[1].weeks[i].next_action

C11_VerifiedIsTerminal == [][C11_Step]_vars

\* verify has just run over a snapshot whose posts would now give a verified
\* entry a different result, and the entry still holds the old one
C11_Witness ==
    /\ lastVerb = "verify"
    /\ outcome = "ok"
    /\ hypoLog # Missing
    /\ analysisFile # Missing
    /\ \E i \in 1..Len(hypoLog[1].weeks) :
          LET w == hypoLog[1].weeks[i]
              tp == ThemePosts(analysisFile[1], w.theme)
          IN  /\ w.result.avg_imp # Null
              /\ tp # <<>>
              /\ VerifiedWeek(w, tp, StateOf(learningFile)).result # w.result

\* C12: starting from a log of at most 12 accumulated learnings, the list never
\* holds more than 12 entries, and a learning appended to a full list evicts
\* the oldest entry (first in, first out).
C12_Step ==
    (hypoLog # Missing /\ hypoLog' # Missing) =>
        LET acc == hypoLog[1].accumulated_learnings
            out == hypoLog'[1].accumulated_learnings
        IN  /\ Len(out) <= AccCap
            /\ \E n \in 0..3 :
                  LET k == Max(0, Len(acc) + n - AccCap)
                  IN  /\ Len(out) = Len(acc) + n - k
                      /\ \A j \in 1..(Len(acc) - k) : out[j] = acc[j + k]

C13_StaleRecommendationIgnored ==
    (/\ consumed.who \in {"auto_post", "daily_generate"}
     /\ \/ recFile = Missing
        \/ recFile = Malformed
        \/ now - recFile[1].generated_at > 7) =>
        /\ consumed.rec = Null
        /\ consumed.who = "auto_post" =>
              consumed.post = selectPostByThompsonSampling(
                                  consumed.pendingPosts,
                                  consumerLoadLearningState(learningFile), consumed.rng)
        /\ (consumed.who = "daily_generate" /\ consumed.themes # <<>>) =>
              consumed.themes = selectThemes(consumed.insights,
                                             consumerLoadLearningState(learningFile),
                                             History, 3, Null, consumed.rng, now)

\* daily_generate has ignored a recommendation of more than seven days that,
\* while fresh, would have put another theme among the themes of the day
C13_Witness ==
    /\ consumed.who = "daily_generate"
    /\ recFile # Missing
    /\ recFile # Malformed
    /\ now - recFile[1].generated_at > 7
    /\ consumed.rec = Null
    /\ consumed.themes # <<>>
    /\ consumed.themes # selectThemes(consumed.insights,
                                      consumerLoadLearningState(learningFile),
                                      History, 3, Some(recFile[1]), consumed.rng, now)

\* C14: recommend emits, for each of the six dimensions, the full list of the
\* dimension's arms sorted in descending order of the sample drawn for each
\* arm, the best entry of a dimension being the head of its list.
C14_SixRankedLists ==
    recFile # Missing =>
        \A k \in {"theme_ranking", "approach_ranking", "slot_ranking",
                  "variant_ranking", "feature_ranking", "source_type_ranking"} :
            /\ k \in DOMAIN recFile[1]
            /\ \A i \in 1..Len(recFile[1][k]) :
                  /\ "sample" \in DOMAIN recFile[1][k][i]
                  /\ i > 1 => recFile[1][k][i - 1].sample >= recFile[1][k][i].sample

\* C15: sampleBeta always returns a value in [0, 1]: for alpha > 0 and beta > 0
\* the sample lies in [0, 1] for every outcome of the uniform draws, and 0.5 is
\* returned when a shape parameter is <= 0 or the two Gamma draws sum to 0.
C15_SampleInUnitInterval ==
    bOut.applied =>
        LET alpha == bIn[1].alpha
            beta == bIn[1].beta
        IN  /\ bOut.p.engine >= 0
            /\ bOut.p.engine <= 1000
            /\ bOut.p.consumer.den > 0
            /\ bOut.p.consumer.num >= 0
            /\ bOut.p.consumer.num <= bOut.p.consumer.den
            /\ (alpha <= 0 \/ beta <= 0) =>
                  /\ bOut.p.engine = 500
                  /\ 2 * bOut.p.consumer.num = bOut.p.consumer.den
            /\ (alpha > 0 /\ beta > 0
                /\ sampleGamma(alpha, bIn[4]) + sampleGamma(beta, bIn[5]) = 0) =>
                  2 * bOut.p.consumer.num = bOut.p.consumer.den

\* an infinite normal draw has been clamped, and two zero Gamma draws have
\* given the neutral default
C15_Witness ==
    /\ bOut.applied
    /\ bIn[1].alpha > 0
    /\ bIn[1].beta > 0
    /\ bIn[2] = 0
    /\ bOut.p.engine = 1000
    /\ sampleGamma(bIn[1].alpha, bIn[4]) + sampleGamma(bIn[1].beta, bIn[5]) = 0
    /\ bOut.p.consumer = Half

\* C16: report writes no file at all, and recommend modifies neither
\* LearningState nor the hypothesis log nor the AnalyzedPost snapshot: the only
\* file recommend writes is the recommendation.
C16_Step ==
    /\ RanStep("report") => files' = files
    /\ RanStep("recommend") =>
          /\ learningFile' = learningFile
          /\ hypoLog' = hypoLog
          /\ analysisFile' = analysisFile
          /\ historyFile' = historyFile

C16_ReadOnlyVerbs == [][C16_Step]_vars

\* recommend has written its file and report has then run to the end
C16_Witness ==
    /\ recFile # Missing
    /\ lastVerb = "report"
    /\ outcome = "ok"

\* C17: a LearningState written by analyze and read back has, for every arm,
\* the alpha, beta and trials that updateBeta returned, and its stored mean is
\* alpha / (alpha + beta) computed from the stored alpha and beta and rounded to
\* three decimals.  Stated on the BetaParams record that updateBeta returns,
\* which is the record saveLearningState writes unchanged.
C17_StoredMeanFromStoredParams ==
    bOut.applied =>
        /\ bOut.p.trials = bIn[1].trials + 1
        /\ bOut.p.mean = Round1000(bOut.p.alpha, bOut.p.alpha + bOut.p.beta)

\* twice the weighted sum of the counts of the block being scored, a count the
\* block lacks being 0, and the impressions floored at 1
C18_Raw2 ==
    LET c(k) == IF k \in DOMAIN bIn THEN bIn[k] ELSE 0
    IN  27 * c("replies") + 20 * c("bookmarks") + 2 * c("retweets") + c("likes")
        + 24 * c("profile_clicks") + 10 * c("url_clicks")

C18_Floor == IF bIn.impressions > 1 THEN bIn.impressions ELSE 1

\* C18: calculateXAS returns raw_xas = replies * 13.5 + bookmarks * 10
\* + retweets * 1 + likes * 0.5 + profile_clicks * 12 + url_clicks * 5, a count
\* the metrics block lacks being read as 0, and normalized_xas =
\* raw_xas / max(impressions, 1) * 1000 rounded to two decimals; for
\* impressions 1000, likes 50, retweets 10, replies 5, bookmarks 20 both are
\* 302.5.  Scores are in hundredths.
C18_ScoreFormula ==
    bOut.applied =>
        /\ 2 * bOut.p.raw_xas = 100 * C18_Raw2
        \* within half a hundredth of the quotient, a tie going up
        /\ 2 * bOut.p.normalized_xas * C18_Floor - 100000 * C18_Raw2 <= C18_Floor
        /\ 100000 * C18_Raw2 - 2 * bOut.p.normalized_xas * C18_Floor < C18_Floor
        /\ bIn = [ impressions |-> 1000, likes |-> 50, retweets |-> 10,
                   replies |-> 5, bookmarks |-> 20 ] =>
              /\ bOut.p.raw_xas = 30250
              /\ bOut.p.normalized_xas = 30250

\* a block without click counts and with no impressions has been scored, and
\* its quotient needed rounding
C18_Witness ==
    /\ bOut.applied
    /\ bIn = [ impressions |-> 3, likes |-> 1, retweets |-> 0, replies |-> 0,
               bookmarks |-> 0 ]
    /\ bOut.p.raw_xas = 50
    /\ bOut.p.normalized_xas = 16667

\* the statement without the rounding: normalized_xas is exactly the quotient
C18_ExactQuotient ==
    bOut.applied =>
        /\ 2 * bOut.p.raw_xas = 100 * C18_Raw2
        /\ 2 * bOut.p.normalized_xas * C18_Floor = 100000 * C18_Raw2

\* the samples a selection run drew: one per arm, the i-th arm's from its
\* learned parameters if LearningState holds the arm and from the prior
\* (alpha 0.3, beta 0.7) if not
C19_Samples(names, dim) ==
    [ i \in 1..Len(names) |->
        LET learned == /\ consumed.learningState # Null
                       /\ HasArm(consumed.learningState[1][dim], names[i])
            params == IF learned
                      THEN GetArm(consumed.learningState[1][dim], names[i])
                      ELSE [alpha |-> 300, beta |-> 700, trials |-> 0, mean |-> 300]
        IN  SampleAt(params, consumed.rng, i) ]

\* pick is the arm of highest sample, the first enumerated of those that share it
C19_IsBest(names, samples, pick) ==
    \E i \in 1..Len(names) :
        /\ names[i] = pick
        /\ \A j \in 1..Len(names) : ~FracLess(samples[i], samples[j])
        /\ \A j \in 1..(i - 1) : FracLess(samples[j], samples[i])

C19_Themes == ThemesOf(consumed.pendingPosts)

\* C19: auto_post, when the pending posts span two or more themes, and
\* daily_generate's approach selection draw one sample per candidate arm, with
\* the prior (alpha 0.3, beta 0.7) for an arm absent from LearningState, and
\* pick the arm of highest sample; of arms with equal samples the one
\* enumerated first wins.
C19_HighestSampleWins ==
    /\ (consumed # NotConsumed /\ consumed.who = "auto_post"
        /\ Len(C19_Themes) >= 2) =>
          C19_IsBest(C19_Themes, C19_Samples(C19_Themes, "theme_scores"),
                     ThemeOf(consumed.post))
    /\ (consumed # NotConsumed /\ consumed.who = "daily_generate"
        /\ consumed.themes # <<>>) =>
          C19_IsBest(approaches, C19_Samples(approaches, "approach_scores"),
                     consumed.approach)

\* auto_post has chosen among three pending posts of two themes, one learned
\* and one read from the prior, and the theme seen second has won on a
\* strictly higher sample
C19_Witness ==
    /\ consumed # NotConsumed
    /\ consumed.who = "auto_post"
    /\ Len(consumed.pendingPosts) = 3
    /\ consumed.learningState # Null
    /\ \E i \in 1..2 : HasArm(consumed.learningState[1].theme_scores, C19_Themes[i])
    /\ \E i \in 1..2 : ~HasArm(consumed.learningState[1].theme_scores, C19_Themes[i])
    /\ ThemeOf(consumed.post) = C19_Themes[2]
    /\ FracLess(C19_Samples(C19_Themes, "theme_scores")[1],
                C19_Samples(C19_Themes, "theme_scores")[2])

\* C20: the variant auto_post publishes is chosen by the rule of C19: one
\* sample per variant arm, drawn after the theme samples from the arm's
\* learned variant_scores (the prior for an arm not yet learned), the variant
\* of highest sample winning.
C20_VariantByThompson ==
    (consumed # NotConsumed /\ consumed.who = "auto_post") =>
        LET variants == <<"A", "B">>
            n == IF Len(C19_Themes) >= 2 THEN Len(C19_Themes) ELSE 0
            samples == [ i \in 1..2 |->
                           LET learned == /\ consumed.learningState # Null
                                          /\ HasArm(consumed.learningState[1].variant_scores,
                                                    variants[i])
                               params == IF learned
                                         THEN GetArm(consumed.learningState[1].variant_scores,
                                                     variants[i])
                                         ELSE [alpha |-> 300, beta |-> 700,
                                               trials |-> 0, mean |-> 300]
                           IN  SampleAt(params, consumed.rng, n + i) ]
        IN  C19_IsBest(variants, samples, consumed.variant)

\* the candidates of a daily_generate run as they stand before the boost, and
\* the themes of the history posted no more than two days before the run
C21_Candidates ==
    LET ls == consumed.learningState
        overseas == OverseasCandidates(consumed.insights, ls, consumed.rng)
        arms == IF ls = Null THEN <<>> ELSE ls[1].theme_scores
    IN  WithRecommended(LearnedCandidates(overseas, overseas, arms, 1, consumed.rng),
                        consumed.rec, ls, consumed.rng)

C21_Recent ==
    { History[i].theme : i \in { j \in 1..Len(History) : now - History[j].posted_at <= 2 } }

\* the ranking value the rule gives a candidate, as a fraction
C21_Value(c) ==
    LET fresh == c.insight # Null /\ c.insight[1].freshness >= 8
                 /\ c.insight[1].japan_spread <= 3
        lifted == IF ~fresh THEN c.sample
                  ELSE IF 3 * c.sample.num > 2 * c.sample.den THEN Frac(1, 1)
                  ELSE Frac(3 * c.sample.num, 2 * c.sample.den)
    IN  IF c.name \in C21_Recent THEN Frac(3 * lifted.num, 10 * lifted.den)
        ELSE lifted

\* equal as fractions
C21_Same(x, y) == ~FracLess(x, y) /\ ~FracLess(y, x)

\* C21: in selectThemes a candidate's ranking value is min(1.0, sample * 1.5)
\* if its insight has freshness >= 8 and japan_spread <= 3 and its sample
\* otherwise, then multiplied by 0.3 if its theme was posted within the last
\* two days; the value lies in [0, 1], and the themes are chosen in descending
\* order of it: each chosen theme has the highest value of the candidates not
\* chosen before it.
C21_BoostThenRank ==
    (consumed # NotConsumed /\ consumed.who = "daily_generate") =>
        LET chosen == consumed.themes
            all == C21_Candidates
        IN  \A k \in 1..Len(chosen) :
              /\ \E i \in 1..Len(all) :
                    /\ all[i].name = chosen[k].name
                    /\ all[i].sample = chosen[k].sample
                    /\ all[i].insight = chosen[k].insight
              /\ C21_Same(chosen[k].boosted, C21_Value(chosen[k]))
              /\ chosen[k].boosted.num >= 0
              /\ chosen[k].boosted.num <= chosen[k].boosted.den
              /\ \A i \in 1..Len(all) :
                    (\A j \in 1..(k - 1) : chosen[j].name # all[i].name) =>
                        ~FracLess(chosen[k].boosted, C21_Value(all[i]))

\* a fresh insight on a theme posted the day before has been lifted to the cap
\* and then penalised, and has still been chosen, behind a better theme
C21_Witness ==
    /\ consumed # NotConsumed
    /\ consumed.who = "daily_generate"
    /\ Len(consumed.themes) >= 2
    /\ \E k \in 2..Len(consumed.themes) :
          LET c == consumed.themes[k]
          IN  /\ c.insight # Null
              /\ c.insight[1].freshness >= 8
              /\ c.name \in C21_Recent
              /\ 3 * c.sample.num > 2 * c.sample.den
              /\ c.boosted = Frac(3, 10)
              /\ FracLess(c.boosted, consumed.themes[k - 1].boosted)

\* C22: the sampleBeta of the engine (recommend) and the sampleBeta of the
\* consumers (theme and approach selection) are one sampler, gammaA / (gammaA
\* + gammaB): on the same shape parameters and the same uniform draws they
\* return the same sample.  Compared where both take the same normal draw and
\* nothing else: shapes of at least 1, a finite radius and u2 = 0.25.
C22_OneSampler ==
    (bOut.applied /\ bIn[1].alpha >= 1000 /\ bIn[1].beta >= 1000
     /\ bIn[2] # 0 /\ bIn[3] = 250) =>
        1000 * bOut.p.consumer.num = bOut.p.engine * bOut.p.consumer.den

\* C23: a verify run turns a pending entry into a verified one, its result and
\* verification populated, if and only if the snapshot of analysed posts holds
\* a post of the entry's theme; otherwise the entry is left as it was.
C23_Step ==
    (RanStep("verify") /\ hypoLog # Missing) =>
        /\ hypoLog' # Missing
        /\ Len(hypoLog'[1].weeks) = Len(hypoLog[1].weeks)
        /\ \A i \in 1..Len(hypoLog[1].weeks) :
              LET week == hypoLog[1].weeks[i]
                  after == hypoLog'[1].weeks[i]
                  matched == /\ analysisFile # Missing
                             /\ \E k \in 1..Len(analysisFile[1]) :
                                   analysisFile[1][k].attribution.theme = week.theme
              IN  week.result.avg_imp = Null =>
                      IF matched
                      THEN /\ after.result.avg_imp # Null
                           /\ after.result.posts_count >= 1
                           /\ after.verification # Null
                      ELSE after = week

C23_VerifiedIffThemePosts == [][C23_Step]_vars

\* one verify run over two pending entries has verified the one whose theme
\* has an analysed post and has left the other pending
C23_Witness ==
    /\ lastVerb = "verify"
    /\ hypoLog # Missing
    /\ analysisFile # Missing
    /\ Len(hypoLog[1].weeks) = 2
    /\ hypoLog[1].weeks[1].result.avg_imp = Null
    /\ hypoLog[1].weeks[1].verification = Null
    /\ hypoLog[1].weeks[2].result.avg_imp # Null
    /\ hypoLog[1].weeks[2].verification # Null
    /\ hypoLog[1].weeks[2].result.posts_count = 1
    /\ \A k \in 1..Len(analysisFile[1]) :
          analysisFile[1][k].attribution.theme # hypoLog[1].weeks[1].theme

\* C24: when verify populates an entry's verification, approach_effective is
\* left null, neither true nor false, if the entry's approach arm is missing
\* from LearningState or has fewer than 5 trials.
C24_Step ==
    (RanStep("verify") /\ hypoLog # Missing /\ hypoLog' # Missing) =>
        \A i \in 1..Len(hypoLog[1].weeks) :
            LET week == hypoLog[1].weeks[i]
                after == hypoLog'[1].weeks[i]
                arms == StateOf(learningFile).approach_scores
                insufficient == \/ ~HasArm(arms, week.approach)
                                \/ GetArm(arms, week.approach).trials < 5
            IN  (week.verification = Null /\ after.verification # Null
                 /\ insufficient) =>
                    /\ after.verification[1].approach_effective # TRUE
                    /\ after.verification[1].approach_effective # FALSE

C24_NoVerdictWithoutData == [][C24_Step]_vars

\* C25: for every verify run and every entry the run newly verifies, the
\* entry's learning is in accumulated_learnings when the run ends, however
\* many entries the run verifies and wherever the entry sits among the weeks.
C25_Step ==
    (RanStep("verify") /\ hypoLog # Missing /\ hypoLog' # Missing) =>
        \A i \in 1..Len(hypoLog[1].weeks) :
            LET week == hypoLog[1].weeks[i]
                after == hypoLog'[1].weeks[i]
                acc == hypoLog'[1].accumulated_learnings
            IN  (week.result.avg_imp = Null /\ after.result.avg_imp # Null) =>
                    \E k \in 1..Len(acc) : acc[k] = after.learning

C25_LearningAccumulated == [][C25_Step]_vars

\* C26: if the highest reward of an analyze batch is 0 (and the stored state
\* is readable), the run raises nothing, and each of its updates leaves the
\* arm's alpha as it was and adds exactly 1 to its beta and to its trials.
C26_Step ==
    (/\ RanStep("analyze")
     /\ historyFile # Missing
     /\ learningFile # Malformed
     /\ withMetrics(History) # <<>>
     /\ \A i \in 1..Len(History) :
           History[i].metrics # NoMetrics =>
               calculateXAS(History[i].metrics).normalized_xas = 0) =>
        /\ outcome' = "ok"
        /\ learningFile' # Missing
        /\ \A d \in Dims : \A k \in 1..Len(learningFile'[1][d]) :
              LET name == learningFile'[1][d][k].name
                  q == learningFile'[1][d][k].p
                  before == StateOf(learningFile)[d]
                  p == IF HasArm(before, name) THEN GetArm(before, name)
                       ELSE [alpha |-> 300, beta |-> 700, trials |-> 0, mean |-> 300]
              IN  /\ q.alpha = p.alpha
                  /\ q.trials >= p.trials
                  /\ q.beta - p.beta = 1000 * (q.trials - p.trials)
        /\ \A i \in 1..Len(History) :
              History[i].metrics # NoMetrics =>
                  TrialsOf(learningFile'[1].theme_scores, History[i].theme)
                      > TrialsOf(StateOf(learningFile).theme_scores, History[i].theme)

C26_ZeroBatchCountsAsFailure == [][C26_Step]_vars

\* two posts without any reward have been analysed, twice over: their shared
\* slot arm stands at the prior's alpha after four updates
C26_Witness ==
    /\ lastVerb = "analyze"
    /\ outcome = "ok"
    /\ historyFile # Missing
    /\ HistoryLen = 2
    /\ \A i \in 1..2 : /\ History[i].metrics # NoMetrics
                       /\ History[i].metrics.impressions = 0
    /\ IsState(learningFile)
    /\ HasArm(learningFile[1].slot_scores, "morning")
    /\ GetArm(learningFile[1].slot_scores, "morning")
         = [alpha |-> 300, beta |-> 4700, trials |-> 4, mean |-> 60]


\* C27: across any sequence of auto_post runs no pool post is published
\* twice: two history records never carry the same post_id, whatever the
\* slot hour and whether the post went out on its scheduled date or later.
C27_NoPostPublishedTwice ==
    \A i, j \in 1..HistoryLen :
        i # j => History[i].post_id # History[j].post_id


\* the candidate source of the pool post a history record was published from
C28_Origin(record) ==
    LET ks == { k \in 1..Len(pool) : pool[k].id = record.post_id }
    IN  IF ks = {} THEN "none" ELSE pool[CHOOSE k \in ks : TRUE].origin

\* C28: a post daily_generate created from an overseas candidate is, once
\* auto_post has published it and analyze has scored it, attributed the
\* source_type 'overseas_trend' and updates the 'overseas_trend' arm, never
\* the 'domestic' one.
C28_OverseasOriginScoredAsOverseas ==
    (analysisFile # Missing /\ learningFile # Missing) =>
        \A k \in 1..Len(analysisFile[1]) : \A i \in 1..HistoryLen :
            ( /\ History[i].id = analysisFile[1][k].post_id
              /\ C28_Origin(History[i]) = "overseas" ) =>
                /\ analysisFile[1][k].attribution.source_type = "overseas_trend"
                /\ HasArm(learningFile[1].source_type_scores, "overseas_trend")
                /\ ~HasArm(learningFile[1].source_type_scores, "domestic")


\* the distance, in thousandths, between alpha + beta and 1 + trials
C29_Drift(p) ==
    LET d == p.alpha + p.beta - (1000 + 1000 * p.trials)
    IN  IF d < 0 THEN -d ELSE d

\* C29: every arm of a LearningState reachable from the empty state by
\* analyze runs carries one unit of pseudo-count per update: alpha + beta =
\* 1 + trials up to the 3-decimal rounding of each update, that is
\* |alpha + beta - (1 + trials)| <= 0.001 * trials.
C29_UnitMassPerUpdate ==
    IsState(learningFile) =>
        \A d \in Dims : \A i \in 1..Len(learningFile[1][d]) :
            C29_Drift(learningFile[1][d][i].p) <= learningFile[1][d][i].p.trials

\* an arm updated several times, by a fractional score among them
C29_Witness ==
    /\ IsState(learningFile)
    /\ \E d \in Dims : \E i \in 1..Len(learningFile[1][d]) :
          /\ learningFile[1][d][i].p.trials >= 3
          /\ learningFile[1][d][i].p.alpha % 1000 # 300



\* C30: sampleGamma terminates under fair random draws for every shape an
\* arm can hand it: a shape below 1 recurses once, on shape + 1, the
\* rejection loop ends at the first acceptance test that passes, and so
\* sampleBeta returns.
C30_SampleBetaReturns ==
    /\ [](gamma.depth <= 1)
    /\ [][ \A u \in UniformDraws :
              (gamma.pc = "uniform" /\ FirstTest(gamma.x, u)) => gamma'.pc = "return" ]_vars
    /\ <>(gamma.pc = "done")

\* a shape below 1 whose recursive call has returned after a redrawn normal
\* and a rejected round
C30_Witness ==
    /\ gamma.pc = "done"
    /\ gamma.alpha \in 1..999
    /\ gamma.beta > 0
    /\ gamma.redraws >= 1
    /\ gamma.rounds >= 1

====
